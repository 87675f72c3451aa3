---------------------------- MODULE SignalProofs ----------------------------
(***************************************************************************)
(* The two places where the agent puts a signal handler of its own in the  *)
(* program's place and takes samples in it.                                *)
(*                                                                         *)
(* ThreadDump, for any threads, any dumpers and any number of slots: the   *)
(* program's SIGURG handler comes back after dumps that kept out of each   *)
(* other's way, and a dump left alone shows the stacks it was answered     *)
(* with.                                                                   *)
(*                                                                         *)
(* Profiler, for any connections, capacity and number of signals: sessions *)
(* that were not started while another was being stopped are kept apart.   *)
(***************************************************************************)
EXTENDS ThreadDump, Profiler, FiniteSetTheorems, WellFoundedInduction, TLAPS

\* Before install_handler a dump has not touched the handler.
Untouched == {"idle", "begun", "active"}

\* Of dumps that never overlapped one runs at a time; it has saved the
\* application's handler when it has put its own in place.
HandlerInv ==
  /\ overlapped \in BOOLEAN
  /\ pc = [d \in Dumpers |-> pc[d]] /\ prev = [d \in Dumpers |-> prev[d]]
  /\ ~overlapped =>
       /\ \A d, e \in Dumpers : pc[d] # "idle" /\ pc[e] # "idle" => d = e
       /\ (\A d \in Dumpers : pc[d] \in Untouched) => handler = "app"
       /\ \A d \in Dumpers : pc[d] \notin Untouched => prev[d] = "app"

LEMMA InitHandler == DumpInit => HandlerInv
BY DEF DumpInit, HandlerInv, Untouched

LEMMA StepHandler == HandlerInv /\ [DumpNext]_vars => HandlerInv'
<1> SUFFICES ASSUME HandlerInv, [DumpNext]_vars PROVE HandlerInv'
  OBVIOUS
<1> USE DEF HandlerInv, Untouched
<1>1. ASSUME NEW t \in Threads, Work(t) \/ Deliver(t) \/ WriteTid(t) \/ WriteIps(t)
      PROVE  HandlerInv'
  <2>1. UNCHANGED <<handler, pc, prev, overlapped>>
    BY <1>1 DEF Work, Deliver, WriteTid, WriteIps, dumper, ghosts
  <2> QED BY <2>1
<1>2. ASSUME NEW d \in Dumpers, NEW tids, Begin(d, tids) PROVE HandlerInv'
  <2>1. /\ pc[d] = "idle" /\ pc' = [pc EXCEPT ![d] = "begun"]
        /\ UNCHANGED <<handler, prev>>
        /\ overlapped' = (overlapped \/ Running # {})
    BY <1>2 DEF Begin, Goes
  <2>2. ASSUME ~overlapped' PROVE ~overlapped /\ \A e \in Dumpers : pc[e] = "idle"
    BY <2>1, <2>2 DEF Running
  <2>3. overlapped' \in BOOLEAN
    BY <2>1
  <2> QED BY <2>1, <2>2, <2>3
<1>3. ASSUME NEW d \in Dumpers, Capture(d) PROVE HandlerInv'
  <2>1. CASE Activate(d)
    BY <2>1 DEF Activate, Goes, ghosts
  <2>2. CASE install_handler(d)
    <3>1. /\ pc[d] = "active" /\ pc' = [pc EXCEPT ![d] = "own"]
          /\ prev' = [prev EXCEPT ![d] = handler] /\ overlapped' = overlapped
      BY <2>2 DEF install_handler, Goes, ghosts
    <3>2. ~overlapped => handler = "app"
      BY <3>1
    <3> QED BY <3>1, <3>2
  <2>3. CASE Own(d) \/ Signal(d) \/ Copy(d) \/ Deactivate(d)
    <3>1. /\ UNCHANGED <<handler, prev, overlapped>>
          /\ pc[d] \notin Untouched
          /\ pc' = [pc EXCEPT ![d] = pc'[d]] /\ pc'[d] \notin Untouched
      BY <2>3 DEF Own, Signal, Copy, Deactivate, Goes, ghosts
    <3> QED BY <3>1
  <2>4. CASE restore_handler(d)
    <3>1. /\ pc[d] = "restore" /\ pc' = [pc EXCEPT ![d] = "idle"]
          /\ handler' = prev[d] /\ UNCHANGED <<prev, overlapped>>
      BY <2>4 DEF restore_handler, Restored, Goes, ghosts
    <3>2. ~overlapped => handler' = "app"
      BY <3>1
    <3> QED BY <3>1, <3>2
  <2> QED BY <1>3, <2>1, <2>2, <2>3, <2>4 DEF Capture
<1>4. CASE UNCHANGED vars
  BY <1>4 DEF vars, dumper, ghosts
<1> QED BY <1>1, <1>2, <1>3, <1>4 DEF DumpNext

\* While dumps have kept out of each other's way the application has its own
\* handler back after each of them.
THEOREM HandlerAlwaysBack == DumpSpec => []HandlerComesBack
<1>1. HandlerInv => HandlerComesBack
  BY DEF HandlerInv, HandlerComesBack, Untouched, Running
<1> QED BY <1>1, InitHandler, StepHandler, PTL DEF DumpSpec

-----------------------------------------------------------------------------
(* Stacks.                                                                  *)

Stacks == (Threads \cup {NoThread}) \X (0..MaxStack)

\* Types: the statics, the threads, the dumpers, what is recorded of them.
StaticTypes ==
  /\ ACTIVE \in BOOLEAN /\ NEXT \in Nat
  /\ SLOTS \in [Slots -> [tid : Threads \cup {NoThread}, ips : Stacks]]
  /\ handler \in {"app", "on_sigurg"}
ThreadTypes ==
  /\ stack \in [Threads -> 1..MaxStack] /\ pending \in [Threads -> BOOLEAN]
  /\ hpc \in [Threads -> {"out", "drawn", "half"}] /\ drawn \in [Threads -> Nat]
  /\ \A t \in Threads : hpc[t] # "out" => drawn[t] \in Slots
DumperTypes ==
  /\ pc \in [Dumpers -> {"idle", "begun", "active", "own", "signal", "wait", "copied", "restore"}]
  /\ prev \in [Dumpers -> {"none", "app", "on_sigurg"}]
  /\ \A d \in Dumpers : pc[d] \notin Untouched => prev[d] # "none"
  /\ want \in [Dumpers -> SUBSET Threads] /\ dumps \in 0..MaxDumps
  /\ DOMAIN result = Dumpers
GhostTypes ==
  /\ alone \in [Dumpers -> BOOLEAN]
  /\ answered \in [Dumpers -> SUBSET (Threads \X (1..MaxStack))]

Types == StaticTypes /\ ThreadTypes /\ DumperTypes /\ GhostTypes

\* A handler is open for as long as some dump will still close it.
ActiveIsHeld == ACTIVE => \E d \in Dumpers : pc[d] \in Answering \cup {"copied"}

\* What holds of the slots drawn so far while d dumps alone: a slot is drawn by
\* one thread, and it is still being filled or shows an answer to this dump.
OneFills(t) == hpc[t] # "out" => drawn[t] < NEXT
Apart(t, u) == hpc[t] # "out" /\ hpc[u] # "out" /\ drawn[t] = drawn[u] => t = u
Named(t) == hpc[t] = "half" => SLOTS[drawn[t]].tid = t
Filled(d, i) == SLOTS[i].ips \in answered[d] /\ SLOTS[i].ips[1] = SLOTS[i].tid
Filling(i) == \E t \in Threads : hpc[t] # "out" /\ drawn[t] = i

Only(d) == \A e \in Dumpers : e # d => pc[e] = "idle"
Drawn(d) ==
  /\ \A t \in Threads : OneFills(t) /\ Named(t)
  /\ \A t, u \in Threads : Apart(t, u)
  /\ \A i \in Slots : i < NEXT => Filling(i) \/ Filled(d, i)

SlotsAreOwn(d) ==
  /\ Only(d) /\ Drawn(d)
  /\ pc[d] = "begun" => \A t \in Threads : hpc[t] = "out"

SlotsInv == \A d \in Dumpers : alone[d] /\ pc[d] \in Answering \cup {"begun"} => SlotsAreOwn(d)

StackInv == Types /\ ActiveIsHeld /\ SlotsInv /\ AloneShowsOwnStacks

\* A non-empty set of naturals has a least element.
LEMMA Least ==
  ASSUME NEW T, T \subseteq Nat, T # {}
  PROVE  \E x \in T : \A y \in T : x <= y
<1>1. PICK x \in T : \A y \in T : ~ (<<y, x>> \in OpToRel(<, Nat))
  BY NatLessThanWellFounded, WFMin
<1>2. \A y \in T : ~ (y < x)
  BY <1>1 DEF OpToRel
<1> QED BY <1>2

\* Of stacks of bounded depth one is deepest.
LEMMA Deepest ==
  ASSUME NEW S, S # {}, NEW n \in Nat, \A s \in S : s[2] \in 0..n
  PROVE  \E s \in S : \A other \in S : other[2] <= s[2]
<1> DEFINE above == {k \in Nat : \E s \in S : k = n - s[2]}
<1>1. \A s \in S : n - s[2] \in above
  OBVIOUS
<1>2. PICK k \in above : \A m \in above : k <= m
  <2>1. above \subseteq Nat /\ above # {}
    BY <1>1
  <2> HIDE DEF above
  <2> QED BY <2>1, Least
<1>3. PICK s \in S : k = n - s[2]
  OBVIOUS
<1>4. ASSUME NEW other \in S PROVE other[2] <= s[2]
  <2>1. k <= n - other[2]
    BY <1>1, <1>2
  <2> QED BY <2>1, <1>3
<1> QED BY <1>4

\* The stack Best picks for a thread is in a slot of that thread.
LEMMA BestIsMine ==
  ASSUME NEW t, NEW slots, slots \subseteq Slots, Types, Best(t, slots) # None
  PROVE  \E i \in slots : SLOTS[i].tid = t /\ Best(t, slots) = SLOTS[i].ips
<1> DEFINE mine == {SLOTS[i].ips : i \in {j \in slots : SLOTS[j].tid = t}}
<1>1. mine # {} /\ Best(t, slots) = CHOOSE s \in mine : \A other \in mine : other[2] <= s[2]
  BY DEF Best
<1>2. \A s \in mine : s[2] \in 0..MaxStack
  BY DEF Types, StaticTypes, Stacks
<1>3. \E s \in mine : \A other \in mine : other[2] <= s[2]
  <2> HIDE DEF mine
  <2> QED BY <1>1, <1>2, Deepest, DumpAssumption
<1>4. Best(t, slots) \in mine
  <2> HIDE DEF mine
  <2> QED BY <1>1, <1>3
<1> QED BY <1>4

LEMMA InitStacks == DumpInit => StackInv
<1> SUFFICES ASSUME DumpInit PROVE StackInv
  OBVIOUS
<1> USE DumpAssumption
<1>1. Types
  <2>1. None \in Stacks
    BY DEF None, Stacks
  <2>2. StaticTypes
    BY <2>1 DEF DumpInit, StaticTypes
  <2>3. ThreadTypes
    BY DEF DumpInit, ThreadTypes
  <2>4. DumperTypes /\ GhostTypes
    BY DEF DumpInit, DumperTypes, GhostTypes, Untouched
  <2> QED BY <2>2, <2>3, <2>4 DEF Types
<1>2. ActiveIsHeld /\ SlotsInv /\ AloneShowsOwnStacks
  BY DEF DumpInit, ActiveIsHeld, SlotsInv, AloneShowsOwnStacks, Answering
<1> QED BY <1>1, <1>2 DEF StackInv

\* Drawing a slot.
LEMMA DrawTypes ==
  ASSUME Types, NEW t \in Threads, Draw(t), hpc[t] = "out",
         UNCHANGED <<ACTIVE, SLOTS, handler, stack>>, pending' \in [Threads -> BOOLEAN]
  PROVE  StaticTypes' /\ ThreadTypes'
<1>1. /\ NEXT' = NEXT + 1 /\ drawn' = [drawn EXCEPT ![t] = NEXT]
      /\ hpc' = [hpc EXCEPT ![t] = IF NEXT >= MAX_THREADS THEN "out" ELSE "drawn"]
  BY DEF Draw
<1>2. NEXT >= MAX_THREADS \/ NEXT \in Slots
  BY DumpAssumption DEF Types, StaticTypes, Slots
<1>3. StaticTypes'
  BY <1>1 DEF Types, StaticTypes
<1>4. hpc' \in [Threads -> {"out", "drawn", "half"}] /\ drawn' \in [Threads -> Nat]
  BY <1>1 DEF Types, StaticTypes, ThreadTypes
<1>5. \A u \in Threads : hpc'[u] # "out" => drawn'[u] \in Slots
  BY <1>1, <1>2 DEF Types, ThreadTypes, StaticTypes
<1> QED BY <1>3, <1>4, <1>5 DEF Types, ThreadTypes, Slots

LEMMA ThreadTypesStep ==
  ASSUME Types, NEW t \in Threads, Work(t) \/ Deliver(t) \/ WriteTid(t) \/ WriteIps(t)
  PROVE  Types'
<1> USE DumpAssumption
<1>1. CASE Work(t)
  BY <1>1 DEF Work, Types, StaticTypes, ThreadTypes, DumperTypes, GhostTypes,
              statics, dumper, ghosts, Slots, Stacks
<1>2. CASE Deliver(t)
  <2>1. pending' \in [Threads -> BOOLEAN]
    BY <1>2 DEF Deliver, Types, ThreadTypes
  <2>2. StaticTypes' /\ ThreadTypes'
    <3>1. CASE handler = "on_sigurg" /\ ACTIVE
      BY <1>2, <2>1, <3>1, DrawTypes DEF Deliver
    <3>2. CASE ~ (handler = "on_sigurg" /\ ACTIVE)
      BY <1>2, <2>1, <3>2 DEF Deliver, Types, StaticTypes, ThreadTypes, Slots, Stacks
    <3> QED BY <3>1, <3>2
  <2> QED BY <1>2, <2>2 DEF Deliver, Types, DumperTypes, GhostTypes, dumper, ghosts
<1>3. CASE WriteTid(t)
  <2>1. drawn[t] \in Slots /\ SLOTS' = [SLOTS EXCEPT ![drawn[t]] = [SLOTS[drawn[t]] EXCEPT !.tid = t]]
    BY <1>3 DEF WriteTid, Types, ThreadTypes
  <2>2. [SLOTS[drawn[t]] EXCEPT !.tid = t] \in [tid : Threads \cup {NoThread}, ips : Stacks]
    BY <2>1 DEF Types, StaticTypes
  <2>3. StaticTypes'
    BY <1>3, <2>1, <2>2 DEF WriteTid, Types, StaticTypes
  <2>4. ThreadTypes'
    BY <1>3 DEF WriteTid, Types, ThreadTypes
  <2> QED BY <1>3, <2>3, <2>4 DEF WriteTid, Types, DumperTypes, GhostTypes, dumper, ghosts
<1>4. CASE WriteIps(t)
  <2>1. <<t, stack[t]>> \in Threads \X (1..MaxStack) /\ <<t, stack[t]>> \in Stacks
    BY DEF Types, ThreadTypes, Stacks
  <2>2. StaticTypes' /\ ThreadTypes'
    <3> DEFINE filled == [SLOTS[drawn[t]] EXCEPT !.ips = <<t, stack[t]>>]
    <3>1. drawn[t] \in Slots /\ SLOTS' = [SLOTS EXCEPT ![drawn[t]] = filled]
      BY <1>4 DEF WriteIps, Types, ThreadTypes
    <3>2. filled \in [tid : Threads \cup {NoThread}, ips : Stacks]
      BY <2>1, <3>1 DEF Types, StaticTypes
    <3>3. StaticTypes'
      BY <1>4, <3>1, <3>2 DEF WriteIps, Types, StaticTypes
    <3>4. ThreadTypes'
      BY <1>4 DEF WriteIps, Types, ThreadTypes
    <3> QED BY <3>3, <3>4
  <2>3. answered' \in [Dumpers -> SUBSET (Threads \X (1..MaxStack))]
    BY <1>4, <2>1 DEF WriteIps, Types, GhostTypes
  <2> QED BY <1>4, <2>2, <2>3 DEF WriteIps, Types, DumperTypes, GhostTypes, dumper
<1> QED BY <1>1, <1>2, <1>3, <1>4

LEMMA DumperTypesStep ==
  ASSUME Types, NEW d \in Dumpers, Capture(d) \/ \E tids \in Wanted : Begin(d, tids)
  PROVE  Types'
<1> USE DumpAssumption DEF Goes, Untouched
<1>1. ASSUME NEW tids \in Wanted, Begin(d, tids) PROVE Types'
  <2>1. StaticTypes' /\ ThreadTypes'
    BY <1>1 DEF Begin, Types, StaticTypes, ThreadTypes, thread, Slots, Stacks
  <2>2. DumperTypes'
    BY <1>1 DEF Begin, Types, DumperTypes, thread, Threads
  <2>3. answered' \in [Dumpers -> SUBSET (Threads \X (1..MaxStack))]
    BY <1>1 DEF Begin, Types, GhostTypes
  <2>4. alone' \in [Dumpers -> BOOLEAN]
    BY <1>1 DEF Begin, Types, GhostTypes
  <2> QED BY <2>1, <2>2, <2>3, <2>4 DEF Types, GhostTypes
<1>2. CASE Activate(d)
  BY <1>2 DEF Activate, Types, StaticTypes, ThreadTypes, DumperTypes, GhostTypes, thread, ghosts,
              Slots, Stacks
<1>3. CASE install_handler(d)
  BY <1>3 DEF install_handler, Types, StaticTypes, ThreadTypes, DumperTypes, GhostTypes,
              statics, thread, ghosts, Slots, Stacks
<1>4. CASE Own(d)
  <2>1. d \in Threads
    BY DEF Threads
  <2>2. StaticTypes' /\ ThreadTypes'
    BY <1>4, <2>1, DrawTypes DEF Own, Types, ThreadTypes
  <2> QED BY <1>4, <2>2 DEF Own, Types, DumperTypes, GhostTypes, ghosts
<1>5. CASE Signal(d)
  BY <1>5 DEF Signal, Types, StaticTypes, ThreadTypes, DumperTypes, GhostTypes,
              statics, ghosts, Slots, Stacks
<1>6. CASE Copy(d)
  <2>1. StaticTypes' /\ ThreadTypes'
    BY <1>6 DEF Copy, Types, StaticTypes, ThreadTypes, statics, thread, Slots, Stacks
  <2>2. DumperTypes'
    BY <1>6 DEF Copy, Types, DumperTypes
  <2>3. alone' \in [Dumpers -> BOOLEAN] /\ answered' = answered
    <3>1. alone' = [alone EXCEPT ![d] = alone[d] /\ \A t \in Threads : hpc[t] = "out"]
      BY <1>6 DEF Copy
    <3>2. (alone[d] /\ \A t \in Threads : hpc[t] = "out") \in BOOLEAN
      OBVIOUS
    <3> QED BY <1>6, <3>1, <3>2 DEF Copy, Types, GhostTypes
  <2> QED BY <2>1, <2>2, <2>3 DEF Types, GhostTypes
<1>7. CASE Deactivate(d)
  BY <1>7 DEF Deactivate, Types, StaticTypes, ThreadTypes, DumperTypes, GhostTypes, thread, ghosts,
              Slots, Stacks
<1>8. CASE restore_handler(d)
  <2>1. prev[d] \in {"app", "on_sigurg"}
    BY <1>8 DEF restore_handler, Types, DumperTypes
  <2> QED BY <1>8, <2>1 DEF restore_handler, Restored, Types, StaticTypes, ThreadTypes, DumperTypes,
              GhostTypes, statics, thread, ghosts, Slots, Stacks
<1> QED BY <1>1, <1>2, <1>3, <1>4, <1>5, <1>6, <1>7, <1>8 DEF Capture

LEMMA ActiveStep == Types /\ ActiveIsHeld /\ DumpNext => ActiveIsHeld'
<1> SUFFICES ASSUME Types, ActiveIsHeld, DumpNext, ACTIVE' PROVE ActiveIsHeld'
  BY DEF ActiveIsHeld
<1> USE DEF Answering, Goes, Types, DumperTypes
<1>1. ASSUME NEW t \in Threads, Work(t) \/ Deliver(t) \/ WriteTid(t) \/ WriteIps(t)
      PROVE  ActiveIsHeld'
  BY <1>1 DEF Work, Deliver, WriteTid, WriteIps, statics, dumper, ActiveIsHeld
<1>2. ASSUME NEW d \in Dumpers, Capture(d) \/ \E tids \in Wanted : Begin(d, tids)
      PROVE  ActiveIsHeld'
  <2>1. CASE Activate(d) \/ Deactivate(d)
    BY <2>1 DEF Activate, Deactivate, ActiveIsHeld
  <2>2. CASE ~ (Activate(d) \/ Deactivate(d))
    <3>1. ACTIVE' = ACTIVE
      BY <1>2, <2>2 DEF Capture, Begin, install_handler, Own, Signal, Copy, restore_handler, statics
    <3>2. /\ pc' = [pc EXCEPT ![d] = pc'[d]]
          /\ pc[d] \in Answering \cup {"copied"} => pc'[d] \in Answering \cup {"copied"}
      BY <1>2, <2>2 DEF Capture, Begin, install_handler, Own, Signal, Copy, restore_handler
    <3> QED BY <3>1, <3>2 DEF ActiveIsHeld
  <2> QED BY <2>1, <2>2
<1> QED BY <1>1, <1>2 DEF DumpNext

-----------------------------------------------------------------------------
(* The slots of a dump alone.                                               *)

LEMMA DrawSlots ==
  ASSUME Types, NEW d \in Dumpers, Drawn(d), NEW t \in Threads, hpc[t] = "out", Draw(t),
         UNCHANGED <<SLOTS, answered>>
  PROVE  Drawn(d)'
<1> USE DEF Drawn, OneFills, Apart, Named, Filled, Filling
<1>1. /\ NEXT' = NEXT + 1 /\ drawn' = [drawn EXCEPT ![t] = NEXT]
      /\ hpc' = [hpc EXCEPT ![t] = IF NEXT >= MAX_THREADS THEN "out" ELSE "drawn"]
      /\ hpc \in [Threads -> {"out", "drawn", "half"}] /\ drawn \in [Threads -> Nat] /\ NEXT \in Nat
  BY DEF Draw, Types, StaticTypes, ThreadTypes
<1>2. \A u \in Threads : hpc'[u] # "out" =>
        \/ u = t /\ hpc'[u] = "drawn" /\ drawn'[u] = NEXT /\ NEXT < MAX_THREADS
        \/ u # t /\ hpc'[u] = hpc[u] /\ drawn'[u] = drawn[u] /\ drawn[u] < NEXT
  BY <1>1, DumpAssumption
<1>3. \A u \in Threads : (OneFills(u) /\ Named(u))'
  BY <1>1, <1>2
<1>4. \A u, w \in Threads : Apart(u, w)'
  BY <1>1, <1>2
<1>5. ASSUME NEW i \in Slots, i < NEXT' PROVE (Filling(i) \/ Filled(d, i))'
  <2>1. CASE i < NEXT
    <3>1. CASE Filled(d, i)
      BY <3>1
    <3>2. ASSUME NEW u \in Threads, hpc[u] # "out", drawn[u] = i PROVE Filling(i)'
      <4>1. u # t
        BY <3>2
      <4>2. hpc'[u] # "out" /\ drawn'[u] = i
        BY <1>1, <3>2, <4>1
      <4> QED BY <4>2
    <3> QED BY <2>1, <3>1, <3>2
  <2>2. CASE i = NEXT
    <3>1. hpc'[t] # "out" /\ drawn'[t] = i
      BY <1>1, <2>2, DumpAssumption DEF Slots
    <3> QED BY <3>1
  <2> QED BY <1>1, <1>5, <2>1, <2>2 DEF Slots
<1> QED BY <1>3, <1>4, <1>5

LEMMA WriteTidSlots ==
  ASSUME Types, NEW d \in Dumpers, Drawn(d), NEW t \in Threads, WriteTid(t)
  PROVE  Drawn(d)'
<1> USE DEF Drawn, OneFills, Apart, Named, Filled, Filling
<1>1. /\ hpc[t] = "drawn" /\ hpc' = [hpc EXCEPT ![t] = "half"]
      /\ SLOTS' = [SLOTS EXCEPT ![drawn[t]].tid = t]
      /\ UNCHANGED <<NEXT, drawn, answered>>
      /\ hpc \in [Threads -> {"out", "drawn", "half"}] /\ drawn[t] \in Slots
      /\ SLOTS \in [Slots -> [tid : Threads \cup {NoThread}, ips : Stacks]]
  BY DEF WriteTid, Types, StaticTypes, ThreadTypes, ghosts
<1>2. \A u \in Threads : hpc'[u] # "out" <=> hpc[u] # "out"
  BY <1>1
<1>3. ASSUME NEW u \in Threads PROVE (OneFills(u) /\ Named(u))'
  <2>1. CASE u = t
    BY <1>1, <2>1
  <2>2. CASE u # t /\ hpc[u] = "half"
    <3>1. drawn[u] # drawn[t]
      BY <1>1, <2>2
    <3> QED BY <1>1, <2>2, <3>1
  <2> QED BY <1>1, <2>1, <2>2
<1>4. \A u, w \in Threads : Apart(u, w)'
  BY <1>1, <1>2
<1>5. ASSUME NEW i \in Slots, i < NEXT' PROVE (Filling(i) \/ Filled(d, i))'
  <2>1. CASE Filling(i)
    BY <1>1, <1>2, <2>1
  <2>2. CASE ~Filling(i)
    <3>1. i # drawn[t] /\ Filled(d, i)
      BY <1>1, <1>5, <2>2
    <3>2. SLOTS'[i] = SLOTS[i]
      BY <1>1, <3>1
    <3> QED BY <1>1, <3>1, <3>2
  <2> QED BY <2>1, <2>2
<1> QED BY <1>3, <1>4, <1>5

LEMMA WriteIpsSlots ==
  ASSUME Types, NEW d \in Dumpers, Drawn(d), pc[d] \in Answering, NEW t \in Threads, WriteIps(t)
  PROVE  Drawn(d)'
<1> USE DEF Drawn, OneFills, Apart, Named, Filled, Filling
<1>1. /\ hpc[t] = "half" /\ hpc' = [hpc EXCEPT ![t] = "out"]
      /\ SLOTS' = [SLOTS EXCEPT ![drawn[t]].ips = <<t, stack[t]>>]
      /\ UNCHANGED <<NEXT, drawn>>
      /\ hpc \in [Threads -> {"out", "drawn", "half"}] /\ drawn[t] \in Slots
      /\ SLOTS \in [Slots -> [tid : Threads \cup {NoThread}, ips : Stacks]]
  BY DEF WriteIps, Types, StaticTypes, ThreadTypes
<1>2. answered'[d] = answered[d] \cup {<<t, stack[t]>>}
  BY DEF WriteIps, Types, GhostTypes
<1>3. \A u \in Threads : hpc'[u] # "out" => u # t /\ hpc'[u] = hpc[u]
  BY <1>1
<1>4. ASSUME NEW u \in Threads PROVE (OneFills(u) /\ Named(u))'
  <2>1. CASE hpc'[u] # "out"
    <3>1. u # t /\ hpc'[u] = hpc[u] /\ drawn[u] # drawn[t]
      BY <1>1, <1>3, <2>1
    <3>2. SLOTS'[drawn[u]] = SLOTS[drawn[u]]
      BY <1>1, <2>1, <3>1 DEF Types, ThreadTypes
    <3> QED BY <1>1, <2>1, <3>1, <3>2
  <2> QED BY <2>1
<1>5. \A u, w \in Threads : Apart(u, w)'
  BY <1>1, <1>3
<1>6. ASSUME NEW i \in Slots, i < NEXT' PROVE (Filling(i) \/ Filled(d, i))'
  <2>1. CASE i = drawn[t]
    <3>1. SLOTS'[i].ips = <<t, stack[t]>> /\ SLOTS'[i].tid = t
      BY <1>1, <2>1
    <3> QED BY <1>2, <3>1
  <2>2. CASE i # drawn[t]
    <3>1. SLOTS'[i] = SLOTS[i]
      BY <1>1, <2>2
    <3>2. CASE Filled(d, i)
      BY <1>2, <3>1, <3>2
    <3>3. ASSUME NEW u \in Threads, hpc[u] # "out", drawn[u] = i PROVE Filling(i)'
      BY <1>1, <2>2, <3>3
    <3> QED BY <1>1, <1>6, <3>2, <3>3
  <2> QED BY <2>1, <2>2
<1> QED BY <1>4, <1>5, <1>6

-----------------------------------------------------------------------------
(* Every step keeps them.                                                   *)

LEMMA ThreadStep ==
  ASSUME StackInv, NEW t \in Threads, Work(t) \/ Deliver(t) \/ WriteTid(t) \/ WriteIps(t)
  PROVE  SlotsInv' /\ AloneShowsOwnStacks'
<1> USE DEF StackInv
<1>1. UNCHANGED <<pc, result, alone>>
  BY DEF Work, Deliver, WriteTid, WriteIps, dumper, ghosts
<1>2. \A d \in Dumpers : /\ answered[d] \subseteq answered'[d]
  BY DEF Work, Deliver, WriteTid, WriteIps, ghosts, Types, GhostTypes
<1>3. ASSUME NEW d \in Dumpers, alone'[d], pc'[d] \in Answering \cup {"begun"}
      PROVE  SlotsAreOwn(d)'
  <2>1. SlotsAreOwn(d)
    BY <1>1, <1>3 DEF SlotsInv
  <2>2. Only(d)'
    BY <1>1, <2>1 DEF SlotsAreOwn, Only
  <2>3. pc[d] = "begun" => ~ACTIVE
    BY <2>1 DEF SlotsAreOwn, Only, ActiveIsHeld, Answering
  <2>4. CASE Work(t)
    BY <1>1, <2>1, <2>4 DEF Work, statics, ghosts, SlotsAreOwn, Only, Drawn, OneFills, Named, Apart,
                            Filled, Filling
  <2>5. CASE Deliver(t)
    <3>1. CASE handler = "on_sigurg" /\ ACTIVE
      <4>1. Drawn(d)'
        BY <2>1, <2>5, <3>1, DrawSlots DEF Deliver, SlotsAreOwn, ghosts
      <4> QED BY <1>1, <2>2, <2>3, <3>1, <4>1 DEF SlotsAreOwn
    <3>2. CASE ~ (handler = "on_sigurg" /\ ACTIVE)
      BY <1>1, <2>1, <2>5, <3>2 DEF Deliver, ghosts, SlotsAreOwn, Only, Drawn, OneFills, Named, Apart,
                                    Filled, Filling
    <3> QED BY <3>1, <3>2
  <2>6. CASE WriteTid(t)
    <3>1. Drawn(d)'
      BY <2>1, <2>6, WriteTidSlots DEF SlotsAreOwn
    <3> QED BY <1>1, <2>1, <2>2, <2>6, <3>1 DEF SlotsAreOwn, WriteTid
  <2>7. CASE WriteIps(t)
    <3>1. pc[d] \in Answering
      BY <1>1, <1>3, <2>1, <2>7 DEF SlotsAreOwn, WriteIps
    <3>2. Drawn(d)'
      BY <2>1, <2>7, <3>1, WriteIpsSlots DEF SlotsAreOwn
    <3> QED BY <1>1, <2>2, <3>1, <3>2 DEF SlotsAreOwn, Answering
  <2> QED BY <2>4, <2>5, <2>6, <2>7
<1>4. SlotsInv'
  BY <1>3 DEF SlotsInv
<1>5. AloneShowsOwnStacks'
  BY <1>1, <1>2 DEF AloneShowsOwnStacks
<1> QED BY <1>4, <1>5

LEMMA BeginStep ==
  ASSUME StackInv, NEW d \in Dumpers, NEW tids \in Wanted, Begin(d, tids)
  PROVE  SlotsInv' /\ AloneShowsOwnStacks'
<1> USE DEF StackInv
<1>1. /\ pc[d] = "idle" /\ pc' = [pc EXCEPT ![d] = "begun"] /\ NEXT' = 0
      /\ answered' = [answered EXCEPT ![d] = {}]
      /\ alone' = [e \in Dumpers |-> IF e = d THEN Running = {} /\ \A t \in Threads : hpc[t] = "out"
                                     ELSE alone[e] /\ e \notin Running]
      /\ UNCHANGED <<result, hpc>>
      /\ pc' \in [Dumpers -> {"idle", "begun", "active", "own", "signal", "wait", "copied", "restore"}]
  BY DEF Begin, Goes, thread, Types, DumperTypes
<1>2. ASSUME NEW e \in Dumpers, e # d, alone'[e] PROVE pc'[e] = "idle"
  BY <1>1, <1>2 DEF Running
<1>3. ASSUME alone'[d] PROVE SlotsAreOwn(d)'
  <2>1. \A e \in Dumpers : pc[e] = "idle"
    BY <1>1, <1>3 DEF Running
  <2>2. \A t \in Threads : hpc'[t] = "out"
    BY <1>1, <1>3
  <2>3. \A i \in Slots : ~ (i < NEXT')
    BY <1>1 DEF Slots
  <2> QED BY <1>1, <2>1, <2>2, <2>3 DEF SlotsAreOwn, Only, Drawn, OneFills, Named, Apart
<1>4. SlotsInv'
  BY <1>2, <1>3 DEF SlotsInv, Answering
<1>5. AloneShowsOwnStacks'
  <2>1. pc'[d] = "begun"
    BY <1>1 DEF Types, DumperTypes
  <2> QED BY <1>2, <2>1 DEF AloneShowsOwnStacks
<1> QED BY <1>4, <1>5

\* Nobody's step is seen by a dump that runs alone but its own.
LEMMA OthersIdle ==
  ASSUME StackInv, NEW d \in Dumpers, NEW e \in Dumpers, pc[e] # "idle",
         alone[d], pc[d] \in Answering \cup {"begun"}
  PROVE  e = d
BY DEF StackInv, SlotsInv, SlotsAreOwn, Only

LEMMA CaptureStep ==
  ASSUME StackInv, NEW d \in Dumpers, Capture(d)
  PROVE  SlotsInv' /\ AloneShowsOwnStacks'
<1> USE DEF StackInv
<1>1. /\ pc[d] # "idle" /\ hpc[d] = "out" /\ pc' = [pc EXCEPT ![d] = pc'[d]]
      /\ pc \in [Dumpers -> {"idle", "begun", "active", "own", "signal", "wait", "copied", "restore"}]
      /\ pc'[d] \in {"idle", "active", "own", "signal", "wait", "copied", "restore"}
      /\ pc'[d] \in Answering => pc[d] \in Answering \cup {"begun"}
      /\ UNCHANGED <<SLOTS, answered>>
      /\ \A e \in Dumpers : alone'[e] => alone[e]
      /\ \A e \in Dumpers \ {d} : result'[e] = result[e]
  BY DEF Capture, Goes, Activate, install_handler, Own, Signal, Copy, Deactivate, restore_handler,
         statics, thread, ghosts, Answering, Types, DumperTypes, GhostTypes
<1>2. ASSUME NEW e \in Dumpers, alone'[e], pc'[e] \in Answering \cup {"begun"}
      PROVE  SlotsAreOwn(e)'
  <2>1. e = d
    <3>1. CASE e # d
      BY <1>1, <1>2, <3>1, OthersIdle
    <3> QED BY <3>1
  <2>2. pc[d] \in Answering \cup {"begun"} /\ SlotsAreOwn(d)
    BY <1>1, <1>2, <2>1 DEF SlotsInv
  <2>3. Only(d)'
    BY <1>1, <2>2 DEF SlotsAreOwn, Only
  <2>4. Drawn(d)'
    <3>1. CASE Own(d)
      BY <1>1, <2>2, <3>1, DrawSlots DEF Own, SlotsAreOwn, Threads
    <3>2. CASE ~Own(d)
      <4>1. UNCHANGED <<NEXT, hpc, drawn>>
        BY <3>2 DEF Capture, Activate, install_handler, Signal, Copy, Deactivate, restore_handler,
                    statics, thread
      <4> QED BY <1>1, <2>2, <4>1 DEF SlotsAreOwn, Drawn, OneFills, Named, Apart, Filled, Filling
    <3> QED BY <3>1, <3>2
  <2> QED BY <1>1, <2>1, <2>3, <2>4 DEF SlotsAreOwn
<1>3. SlotsInv'
  BY <1>2 DEF SlotsInv
<1>4. ASSUME NEW e \in Dumpers, pc'[e] = "copied", alone'[e], NEW t \in Threads, result'[e][t] # None
      PROVE  result'[e][t] \in answered'[e] /\ result'[e][t][1] = t
  <2>1. CASE e # d
    <3>1. pc[e] = "copied" /\ alone[e] /\ result'[e] = result[e] /\ answered' = answered
      BY <1>1, <1>4, <2>1
    <3> QED BY <1>4, <3>1 DEF AloneShowsOwnStacks
  <2>2. CASE e = d
    <3>1. Copy(d)
      BY <1>1, <1>4, <2>2 DEF Capture, Goes, Activate, install_handler, Own, Signal, Deactivate,
                              restore_handler
    <3>2. pc[d] = "wait" /\ \A u \in Threads : hpc[u] = "out"
      BY <1>4, <2>2, <3>1 DEF Copy, Goes, Types, GhostTypes
    <3>3. Drawn(d)
      BY <1>1, <1>4, <2>2, <3>2 DEF SlotsInv, SlotsAreOwn, Answering
    <3>4. t \in want[d] /\ result'[d][t] = Best(t, Copied(d))
      BY <1>4, <2>2, <3>1 DEF Copy, Types, DumperTypes
    <3>5. PICK i \in Copied(d) : SLOTS[i].tid = t /\ Best(t, Copied(d)) = SLOTS[i].ips
      <4>1. Copied(d) \subseteq Slots
        BY DEF Copied
      <4>2. Best(t, Copied(d)) # None
        BY <1>4, <2>2, <3>4
      <4> QED BY <4>1, <4>2, BestIsMine
    <3>6. Filled(d, i)
      BY <3>2, <3>3, <3>5 DEF Drawn, Filling, Copied
    <3> QED BY <1>1, <2>2, <3>4, <3>5, <3>6 DEF Filled
  <2> QED BY <2>1, <2>2
<1>5. AloneShowsOwnStacks'
  BY <1>4 DEF AloneShowsOwnStacks
<1> QED BY <1>3, <1>5

LEMMA StackStep == StackInv /\ [DumpNext]_vars => StackInv'
<1> SUFFICES ASSUME StackInv, [DumpNext]_vars PROVE StackInv'
  OBVIOUS
<1>1. CASE DumpNext
  <2>1. Types /\ ActiveIsHeld
    BY DEF StackInv
  <2>2. Types'
    BY <1>1, <2>1, ThreadTypesStep, DumperTypesStep DEF DumpNext
  <2>3. SlotsInv' /\ AloneShowsOwnStacks'
    BY <1>1, ThreadStep, BeginStep, CaptureStep DEF DumpNext
  <2> QED BY <1>1, <2>1, <2>2, <2>3, ActiveStep DEF StackInv
<1>2. CASE UNCHANGED vars
  <2> USE <1>2 DEF vars, statics, thread, dumper, ghosts
  <2>1. Types'
    BY DEF StackInv, Types, StaticTypes, ThreadTypes, DumperTypes, GhostTypes, Slots, Stacks
  <2>2. ActiveIsHeld' /\ AloneShowsOwnStacks'
    BY DEF StackInv, ActiveIsHeld, AloneShowsOwnStacks
  <2>3. SlotsInv'
    BY DEF StackInv, SlotsInv, SlotsAreOwn, Only, Drawn, OneFills, Named, Apart, Filled, Filling
  <2> QED BY <2>1, <2>2, <2>3 DEF StackInv
<1> QED BY <1>1, <1>2

LEMMA StacksFromInv == StackInv => StacksHold
<1> SUFFICES ASSUME StackInv PROVE TypeOK
  BY DEF StackInv, StacksHold
<1>1. \A i \in Slots : SLOTS[i].tid \in Threads \cup {NoThread} /\ SLOTS[i].ips[2] \in 0..MaxStack
  BY DEF StackInv, Types, StaticTypes, Stacks
<1> QED BY <1>1 DEF StackInv, Types, StaticTypes, ThreadTypes, DumperTypes, TypeOK

\* A dump that runs by itself shows, of every thread it was asked for, a stack
\* that thread gave to this dump, or none.
THEOREM DumpShowsItsOwn == DumpSpec => []StacksHold
BY InitStacks, StackStep, StacksFromInv, PTL DEF DumpSpec

-----------------------------------------------------------------------------

\* On the way in, holding the lock, and on the way out, which holds nothing.
StartPcs == {"zero", "on", "install", "arm"}
StopPcs == {"disarm", "off", "sleep", "snapshot"}

\* The ticks that took a number, and those that are over.
Numbered == {t \in Ticks : seq[t] # 0}
Ended == {t \in Ticks : tick[t] = "done"}

\* The lock is held by the one that starts a wall-clock session, and what a
\* connection holds of a profile goes with where it is.
Owned ==
  /\ \A s \in Sessions : s \in lock <=> at[s] \in StartPcs
  /\ \A s, o \in lock : s = o
  /\ lock # {} => SESSION = Nobody
  /\ SESSION # Nobody => SESSION.id \in 1..started /\ SESSION.kind \in {"cpu", "wall"}
  /\ \A s \in Sessions :
       /\ at[s] \in {"idle", "told", "sleeping"} => running[s] = Nobody
       /\ at[s] \notin {"idle", "told", "sleeping"} => running[s].id \in 1..started
       /\ at[s] \in StartPcs \cup StopPcs => running[s].kind = "wall"

\* A profile is in one place: with the connection that starts it, in the slot
\* or with the connection that stops it.
Once ==
  /\ \A s \in Sessions : running[s].id # 0 => running[s].id # SESSION.id
  /\ \A s, o \in Sessions : s # o /\ running[s].id # 0 => running[s].id # running[o].id

\* pprof samples for the session in the slot or the one whose report is built.
CpuSampled ==
  /\ SESSION.kind = "cpu" => pprof
  /\ \A s \in Sessions : at[s] = "report" =>
       /\ pprof /\ SESSION.kind # "cpu"
       /\ \A o \in Sessions : at[o] = "report" => o = s

\* A profile that is not yet armed has raised no signal.
Unarmed ==
  /\ timer \in 0..started
  /\ \A t \in Ticks : origin[t] \in 0..started
  /\ \A s \in Sessions : at[s] \in StartPcs \cup {"start"} =>
       /\ timer # running[s].id
       /\ \A t \in Ticks : origin[t] # running[s].id

\* The numbers drawn and the signals that went astray are so many ticks.
Counted ==
  /\ \A t \in Ticks :
       /\ t > raised => tick[t] = "none"
       /\ tick[t] \in {"none", "pending", "check", "draw"} => seq[t] = 0
       /\ tick[t] = "write" => seq[t] # 0
  /\ WALL_NEXT <= Cardinality(Numbered)
  /\ strays <= Cardinality(Ended)

Samples(p) == {t \in Ticks : origin[t] = p /\ seq[t] # 0}

\* The slots hold what was sampled of p, or will when its handlers are through.
Sampled(p) ==
  /\ WALL_NEXT = Cardinality(Samples(p))
  /\ \A i \in 1..WALL_NEXT : \E t \in Samples(p) : seq[t] = i
  /\ \A t \in Samples(p) :
       tick[t] = "done" => WALL_SLOTS[Place(t)] = p

\* The profile may still be sampled by handlers that have begun.
Signalling == {"disarm", "off", "sleep"}

\* Of wall-clock sessions one is on its way at a time: the timer, the switch and
\* the handler are as far as it is, handlers at work are of its signals, and
\* what was shown before was of one session each.
SessionsApart ==
  /\ strays = 0
  /\ SESSION.kind = "wall" =>
       /\ timer = SESSION.id /\ WALL_ON /\ sigalrm = "rthas" /\ SESSION.prev = "program"
       /\ Sampled(SESSION.id)
  /\ \A s \in Sessions :
       /\ at[s] \in StartPcs =>
            /\ timer = 0
            /\ at[s] # "zero" => WALL_NEXT = 0
            /\ at[s] \in {"install", "arm"} => WALL_ON
            /\ sigalrm = IF at[s] = "arm" THEN "rthas" ELSE "program"
            /\ at[s] = "arm" => running[s].prev = "program"
       /\ at[s] \in StopPcs =>
            /\ lock = {} /\ SESSION.kind # "wall"
            /\ \A o \in Sessions : at[o] \in StopPcs => o = s
            /\ timer = IF at[s] = "disarm" THEN running[s].id ELSE 0
            /\ sigalrm = IF at[s] = "snapshot" THEN "program" ELSE "rthas"
            /\ running[s].prev = "program"
            /\ at[s] = "sleep" => waits[s] = raised
            /\ at[s] = "snapshot" => \A t \in Ticks : tick[t] \in {"none", "done"}
            /\ Sampled(running[s].id)
  /\ SESSION.kind # "wall" /\ (\A s \in Sessions : at[s] \notin StartPcs \cup StopPcs) =>
       sigalrm = "program" /\ timer = 0
  /\ \A t \in Ticks : tick[t] \notin {"none", "done"} =>
       \/ SESSION.kind = "wall" /\ origin[t] = SESSION.id
       \/ \E s \in Sessions : at[s] \in Signalling /\ origin[t] = running[s].id
  /\ \A p \in Profiles :
       /\ report[p].from \subseteq {p}
       /\ report[p].raw = IF report[p].sampled < WALL_CAP THEN report[p].sampled ELSE WALL_CAP

ProfInv ==
  ProfilerTypeOK /\ Owned /\ Once /\ CpuSampled /\ Unarmed /\ Counted /\ (~crossed => SessionsApart)

\* The empty slot.
LEMMA NobodyFits == Nobody \in Runnings
<1>1. 0 \in 0..MaxStarts /\ "none" \in {"none", "cpu", "wall"} /\ "program" \in Dispositions
  BY ProfilerAssumption DEF Dispositions
<1>2. \A i \in 0..MaxStarts, k \in {"none", "cpu", "wall"}, d \in Dispositions :
        [id |-> i, kind |-> k, prev |-> d] \in Runnings
  BY DEF Runnings
<1> QED BY <1>1, <1>2 DEF Nobody

LEMMA InitProf == Init => ProfInv
<1> SUFFICES ASSUME Init PROVE ProfInv
  OBVIOUS
<1>n. Nobody \in Runnings
  BY NobodyFits
<1> USE ProfilerAssumption DEF Init
<1>1. ProfilerTypeOK
  <2>2. NoReport \in [raw : 0..WALL_CAP, from : SUBSET Profiles, sampled : 0..MaxTicks]
    BY DEF NoReport
  <2>3. /\ WALL_SLOTS \in [Places -> 0..MaxStarts] /\ running \in [Sessions -> Runnings]
        /\ report \in [Profiles -> [raw : 0..WALL_CAP, from : SUBSET Profiles,
                            sampled : 0..MaxTicks]]
    BY <1>n, <2>2
  <2>4. /\ at \in [Sessions -> {"idle", "start", "zero", "on", "install", "arm", "told",
                           "sleeping", "report", "disarm", "off", "sleep", "snapshot"}]
        /\ tick \in [Ticks -> {"none", "pending", "check", "draw", "write", "done"}]
    OBVIOUS
  <2>5. /\ seq \in [Ticks -> 0..MaxTicks] /\ origin \in [Ticks -> 0..MaxStarts]
        /\ waits \in [Sessions -> 0..MaxTicks] /\ oneshot \in [Sessions -> BOOLEAN]
    OBVIOUS
  <2>6. SESSION \in Runnings
    BY <1>n
  <2>7. /\ WALL_NEXT \in 0..MaxTicks /\ timer \in 0..MaxStarts /\ raised \in 0..MaxTicks
        /\ started \in 0..MaxStarts /\ strays \in 0..MaxTicks
    OBVIOUS
  <2>8. /\ lock \subseteq Sessions /\ WALL_ON \in BOOLEAN /\ sigalrm \in Dispositions
        /\ pprof \in BOOLEAN /\ crossed \in BOOLEAN
    BY DEF Dispositions
  <2> HIDE DEF Init
  <2> QED BY <2>3, <2>4, <2>5, <2>6, <2>7, <2>8 DEF ProfilerTypeOK
<1>2. Owned /\ Once /\ CpuSampled /\ Unarmed
  BY DEF Owned, Once, CpuSampled, Unarmed, StartPcs, StopPcs, Nobody
<1>3. Numbered = {} /\ Ended = {}
  BY DEF Numbered, Ended
<1>4. Counted
  BY <1>3, FS_EmptySet DEF Counted
<1>5. SessionsApart
  BY DEF SessionsApart, StartPcs, StopPcs, NoReport, Nobody
<1> QED BY <1>1, <1>2, <1>4, <1>5 DEF ProfInv

\* The types, one by one.
LEMMA ProfilerTypes ==
  ASSUME ProfInv
  PROVE  /\ SESSION \in Runnings /\ lock \subseteq Sessions /\ WALL_ON \in BOOLEAN
         /\ WALL_NEXT \in 0..MaxTicks /\ WALL_SLOTS \in [Places -> 0..MaxStarts]
         /\ sigalrm \in Dispositions /\ timer \in 0..MaxStarts /\ pprof \in BOOLEAN
         /\ at \in [Sessions -> {"idle", "start", "zero", "on", "install", "arm", "told",
                                 "sleeping", "report", "disarm", "off", "sleep", "snapshot"}]
         /\ oneshot \in [Sessions -> BOOLEAN] /\ running \in [Sessions -> Runnings]
         /\ waits \in [Sessions -> 0..MaxTicks] /\ raised \in 0..MaxTicks
         /\ tick \in [Ticks -> {"none", "pending", "check", "draw", "write", "done"}]
         /\ seq \in [Ticks -> 0..MaxTicks] /\ origin \in [Ticks -> 0..MaxStarts]
         /\ started \in 0..MaxStarts /\ crossed \in BOOLEAN /\ strays \in 0..MaxTicks
         /\ report \in [Profiles -> [raw : 0..WALL_CAP, from : SUBSET Profiles,
                             sampled : 0..MaxTicks]]
         /\ WALL_CAP \in Nat \ {0} /\ MaxStarts \in Nat /\ MaxTicks \in Nat
BY ProfilerAssumption DEF ProfInv, ProfilerTypeOK

\* Some of the ticks.
LEMMA Cards ==
  ASSUME NEW S \in SUBSET Ticks
  PROVE  IsFiniteSet(S) /\ Cardinality(S) \in 0..MaxTicks
<1>1. IsFiniteSet(Ticks) /\ Cardinality(Ticks) = MaxTicks
  BY ProfilerAssumption, FS_Interval DEF Ticks
<1> QED BY <1>1, FS_Subset, FS_CardinalityType, ProfilerAssumption

\* While no handler works and the slots are left alone, samples stay.
LEMMA SampledStill ==
  ASSUME NEW p, Sampled(p), UNCHANGED <<signals, WALL_NEXT, WALL_SLOTS>>
  PROVE  Sampled(p)'
BY DEF Sampled, Samples, Place, signals

\* One step each.  First those of a connection: `start`, with the lock or
\* without, then `stop` and the end of a one-shot; then the kernel's and the
\* handlers'.
LEMMA StepAsks ==
  ASSUME ProfInv, NEW s \in Sessions, NEW once \in BOOLEAN, Asks(s, once)
  PROVE  ProfInv'
<1>1. /\ at[s] = "idle"
      /\ started < MaxStarts
      /\ started' = started + 1
      /\ at' = [at EXCEPT ![s] = "start"]
      /\ oneshot' = [oneshot EXCEPT ![s] = once]
      /\ running' = [running EXCEPT ![s] = [running[s] EXCEPT !.id = started + 1]]
      /\ UNCHANGED <<signals, SESSION, lock, WALL_ON, WALL_NEXT, WALL_SLOTS, sigalrm, timer, pprof,
                     waits, crossed, strays, report>>
  BY DEF Asks, Steps, slot, wall, client, history
<1>t. ProfilerTypeOK'
  BY <1>1, ProfilerTypes DEF ProfilerTypeOK, signals, Runnings
<1>2. Owned'
  BY <1>1, ProfilerTypes DEF ProfInv, Owned, StartPcs, StopPcs
<1>3. Once' /\ CpuSampled'
  BY <1>1, ProfilerTypes DEF ProfInv, Owned, Once, CpuSampled, StartPcs, StopPcs
<1>4. Unarmed'
  BY <1>1, ProfilerTypes DEF ProfInv, Owned, Once, Unarmed, StartPcs, signals
<1>5. Counted'
  BY <1>1 DEF ProfInv, Counted, Numbered, Ended, signals
<1>6. ASSUME ~crossed' PROVE SessionsApart'
  <2>1. SessionsApart
    BY <1>1, <1>6 DEF ProfInv
  <2> QED BY <1>1, <2>1, ProfilerTypes, SampledStill
          DEF ProfInv, SessionsApart, Owned, StartPcs, StopPcs, Signalling, signals
<1> QED BY <1>t, <1>2, <1>3, <1>4, <1>5, <1>6 DEF ProfInv

LEMMA StepAlreadyRunning ==
  ASSUME ProfInv, NEW s \in Sessions, AlreadyRunning(s)
  PROVE  ProfInv'
<1>1. /\ at[s] = "start"
      /\ at' = [at EXCEPT ![s] = "idle"]
      /\ running' = [running EXCEPT ![s] = Nobody]
      /\ UNCHANGED <<signals, SESSION, lock, WALL_ON, WALL_NEXT, WALL_SLOTS, sigalrm, timer, pprof,
                     oneshot, waits, started, crossed, strays, report>>
  BY DEF AlreadyRunning, Steps, slot, wall, client, history
<1>t. ProfilerTypeOK'
  BY <1>1, ProfilerTypes, NobodyFits DEF ProfilerTypeOK, signals
<1>2. Owned'
  BY <1>1, ProfilerTypes DEF ProfInv, Owned, StartPcs, StopPcs, Nobody
<1>3. Once' /\ CpuSampled'
  BY <1>1, ProfilerTypes DEF ProfInv, Owned, Once, CpuSampled, StartPcs, StopPcs, Nobody
<1>4. Unarmed'
  BY <1>1, ProfilerTypes DEF ProfInv, Owned, Once, Unarmed, StartPcs, signals, Nobody
<1>5. Counted'
  BY <1>1 DEF ProfInv, Counted, Numbered, Ended, signals
<1>6. ASSUME ~crossed' PROVE SessionsApart'
  <2>1. SessionsApart
    BY <1>1, <1>6 DEF ProfInv
  <2> QED BY <1>1, <2>1, ProfilerTypes, SampledStill
          DEF ProfInv, SessionsApart, Owned, StartPcs, StopPcs, Signalling, signals, Nobody
<1> QED BY <1>t, <1>2, <1>3, <1>4, <1>5, <1>6 DEF ProfInv

LEMMA StepStartWall ==
  ASSUME ProfInv, NEW s \in Sessions, StartWall(s)
  PROVE  ProfInv'
<1>1. /\ at[s] = "start"
      /\ lock = {}
      /\ SESSION = Nobody
      /\ lock' = {s}
      /\ at' = [at EXCEPT ![s] = "zero"]
      /\ running' = [running EXCEPT ![s] = [running[s] EXCEPT !.kind = "wall"]]
      /\ crossed' = (crossed \/ Stopping # {})
      /\ UNCHANGED <<signals, SESSION, WALL_ON, WALL_NEXT, WALL_SLOTS, sigalrm, timer, pprof,
                     oneshot, waits, started, strays, report>>
  BY DEF StartWall, SlotFree, Steps, slot, wall, client, history
<1>t. ProfilerTypeOK'
  BY <1>1, ProfilerTypes DEF ProfilerTypeOK, signals, Runnings
<1>2. Owned'
  BY <1>1, ProfilerTypes DEF ProfInv, Owned, StartPcs, StopPcs, Nobody
<1>3. Once' /\ CpuSampled'
  BY <1>1, ProfilerTypes DEF ProfInv, Owned, Once, CpuSampled, StartPcs, StopPcs, Nobody
<1>4. Unarmed'
  BY <1>1, ProfilerTypes DEF ProfInv, Owned, Once, Unarmed, StartPcs, signals, Nobody
<1>5. Counted'
  BY <1>1 DEF ProfInv, Counted, Numbered, Ended, signals
<1>6. ASSUME ~crossed' PROVE SessionsApart'
  <2>1. SessionsApart
    BY <1>1, <1>6 DEF ProfInv
  <2>2. \A o \in Sessions : at[o] \notin StopPcs
    BY <1>1, <1>6 DEF Stopping, StopPcs
  <2> QED BY <1>1, <2>1, <2>2, ProfilerTypes, SampledStill
          DEF ProfInv, SessionsApart, Owned, StartPcs, StopPcs, Signalling, signals, Nobody
<1> QED BY <1>t, <1>2, <1>3, <1>4, <1>5, <1>6 DEF ProfInv

LEMMA StepZeroNext ==
  ASSUME ProfInv, NEW s \in Sessions, ZeroNext(s)
  PROVE  ProfInv'
<1>1. /\ at[s] = "zero"
      /\ at' = [at EXCEPT ![s] = "on"]
      /\ WALL_NEXT' = 0
      /\ UNCHANGED <<signals, SESSION, lock, WALL_ON, WALL_SLOTS, sigalrm, timer, pprof, oneshot,
                     running, waits, started, crossed, strays, report>>
  BY DEF ZeroNext, Steps, slot, wall, client, history
<1>t. ProfilerTypeOK'
  BY <1>1, ProfilerTypes DEF ProfilerTypeOK, signals
<1>2. Owned'
  BY <1>1, ProfilerTypes DEF ProfInv, Owned, StartPcs, StopPcs
<1>3. Once' /\ CpuSampled'
  BY <1>1, ProfilerTypes DEF ProfInv, Once, CpuSampled
<1>4. Unarmed'
  BY <1>1, ProfilerTypes DEF ProfInv, Unarmed, StartPcs, signals
<1>5. Counted'
  BY <1>1, ProfilerTypes, Cards DEF ProfInv, Counted, Numbered, Ended, signals
<1>6. ASSUME ~crossed' PROVE SessionsApart'
  <2>1. SessionsApart
    BY <1>1, <1>6 DEF ProfInv
  <2> QED BY <1>1, <2>1, ProfilerTypes, SampledStill
          DEF ProfInv, SessionsApart, Owned, StartPcs, StopPcs, Signalling, signals
<1> QED BY <1>t, <1>2, <1>3, <1>4, <1>5, <1>6 DEF ProfInv

LEMMA StepSwitchOn ==
  ASSUME ProfInv, NEW s \in Sessions, SwitchOn(s)
  PROVE  ProfInv'
<1>1. /\ at[s] = "on"
      /\ at' = [at EXCEPT ![s] = "install"]
      /\ WALL_ON' = TRUE
      /\ UNCHANGED <<signals, SESSION, lock, WALL_NEXT, WALL_SLOTS, sigalrm, timer, pprof, oneshot,
                     running, waits, started, crossed, strays, report>>
  BY DEF SwitchOn, Steps, slot, wall, client, history
<1>t. ProfilerTypeOK'
  BY <1>1, ProfilerTypes DEF ProfilerTypeOK, signals
<1>2. Owned'
  BY <1>1, ProfilerTypes DEF ProfInv, Owned, StartPcs, StopPcs
<1>3. Once' /\ CpuSampled'
  BY <1>1, ProfilerTypes DEF ProfInv, Once, CpuSampled
<1>4. Unarmed'
  BY <1>1, ProfilerTypes DEF ProfInv, Unarmed, StartPcs, signals
<1>5. Counted'
  BY <1>1 DEF ProfInv, Counted, Numbered, Ended, signals
<1>6. ASSUME ~crossed' PROVE SessionsApart'
  <2>1. SessionsApart
    BY <1>1, <1>6 DEF ProfInv
  <2> QED BY <1>1, <2>1, ProfilerTypes, SampledStill
          DEF ProfInv, SessionsApart, Owned, StartPcs, StopPcs, Signalling, signals
<1> QED BY <1>t, <1>2, <1>3, <1>4, <1>5, <1>6 DEF ProfInv

LEMMA StepInstall ==
  ASSUME ProfInv, NEW s \in Sessions, Install(s)
  PROVE  ProfInv'
<1>1. /\ at[s] = "install"
      /\ at' = [at EXCEPT ![s] = "arm"]
      /\ sigalrm' = "rthas"
      /\ running' = [running EXCEPT ![s] = [running[s] EXCEPT !.prev = sigalrm]]
      /\ UNCHANGED <<signals, SESSION, lock, WALL_ON, WALL_NEXT, WALL_SLOTS, timer, pprof, oneshot,
                     waits, started, crossed, strays, report>>
  BY DEF Install, Steps, slot, wall, client, history
<1>t. ProfilerTypeOK'
  <2>1. [running[s] EXCEPT !.prev = sigalrm] \in Runnings
    BY ProfilerTypes DEF Runnings
  <2>2. running' \in [Sessions -> Runnings]
    BY <1>1, <2>1, ProfilerTypes
  <2> QED BY <1>1, <2>2, ProfilerTypes DEF ProfilerTypeOK, signals, Dispositions
<1>2. Owned'
  BY <1>1, ProfilerTypes DEF ProfInv, Owned, StartPcs, StopPcs
<1>3. Once' /\ CpuSampled'
  BY <1>1, ProfilerTypes DEF ProfInv, Owned, Once, CpuSampled, StartPcs, StopPcs
<1>4. Unarmed'
  BY <1>1, ProfilerTypes DEF ProfInv, Owned, Once, Unarmed, StartPcs, signals
<1>5. Counted'
  BY <1>1 DEF ProfInv, Counted, Numbered, Ended, signals
<1>6. ASSUME ~crossed' PROVE SessionsApart'
  <2>1. SessionsApart
    BY <1>1, <1>6 DEF ProfInv
  <2> QED BY <1>1, <2>1, ProfilerTypes, SampledStill
          DEF ProfInv, SessionsApart, Owned, StartPcs, StopPcs, Signalling, signals
<1> QED BY <1>t, <1>2, <1>3, <1>4, <1>5, <1>6 DEF ProfInv

LEMMA StepArm ==
  ASSUME ProfInv, NEW s \in Sessions, Arm(s)
  PROVE  ProfInv'
<1>1. /\ at[s] = "arm"
      /\ at' = [at EXCEPT ![s] = AfterStart(s)]
      /\ timer' = running[s].id
      /\ SESSION' = running[s]
      /\ lock' = {}
      /\ running' = [running EXCEPT ![s] = Nobody]
      /\ UNCHANGED <<signals, WALL_ON, WALL_NEXT, WALL_SLOTS, sigalrm, pprof, oneshot, waits,
                     started, crossed, strays, report>>
  BY DEF Arm, Steps, slot, wall, client, history
<1>t. ProfilerTypeOK'
  <2>1. SESSION' \in Runnings /\ timer' \in 0..MaxStarts
    BY <1>1, ProfilerTypes DEF Runnings
  <2> QED BY <1>1, <2>1, ProfilerTypes, NobodyFits DEF ProfilerTypeOK, signals, AfterStart
<1>2. Owned'
  BY <1>1, ProfilerTypes DEF ProfInv, Owned, StartPcs, StopPcs, Nobody, AfterStart
<1>3. Once' /\ CpuSampled'
  BY <1>1, ProfilerTypes DEF ProfInv, Owned, Once, CpuSampled, StartPcs, StopPcs, Nobody, AfterStart
<1>4. Unarmed'
  BY <1>1, ProfilerTypes DEF ProfInv, Owned, Once, Unarmed, StartPcs, signals, Nobody, AfterStart
<1>5. Counted'
  BY <1>1 DEF ProfInv, Counted, Numbered, Ended, signals
<1>6. ASSUME ~crossed' PROVE SessionsApart'
  <2>1. SessionsApart
    BY <1>1, <1>6 DEF ProfInv
  <2>2. /\ WALL_NEXT = 0 /\ WALL_ON /\ sigalrm = "rthas" /\ running[s].prev = "program"
        /\ \A t \in Ticks : tick[t] \in {"none", "done"}
    BY <1>1, <2>1, ProfilerTypes DEF ProfInv, SessionsApart, Owned, StartPcs, StopPcs, Signalling,
       Nobody
  <2>3. PICK p \in 1..started : p = running[s].id
    BY <1>1 DEF ProfInv, Owned
  <2>4. Sampled(p)'
    <3>1. Samples(p)' = {}
      BY <1>1, <2>3 DEF ProfInv, Unarmed, StartPcs, Samples, signals
    <3> QED BY <1>1, <2>2, <3>1, FS_EmptySet DEF Sampled
  <2> QED BY <1>1, <2>1, <2>2, <2>3, <2>4, ProfilerTypes, SampledStill
          DEF ProfInv, SessionsApart, Owned, StartPcs, StopPcs, Signalling, signals, Nobody, AfterStart
<1> QED BY <1>t, <1>2, <1>3, <1>4, <1>5, <1>6 DEF ProfInv

LEMMA StepCannotArm ==
  ASSUME ProfInv, NEW s \in Sessions, CannotArm(s)
  PROVE  ProfInv'
<1>1. /\ at[s] = "arm"
      /\ at' = [at EXCEPT ![s] = "idle"]
      /\ WALL_ON' = FALSE
      /\ sigalrm' = running[s].prev
      /\ lock' = {}
      /\ running' = [running EXCEPT ![s] = Nobody]
      /\ UNCHANGED <<signals, SESSION, WALL_NEXT, WALL_SLOTS, timer, pprof, oneshot, waits,
                     started, crossed, strays, report>>
  BY DEF CannotArm, Steps, slot, wall, client, history
<1>t. ProfilerTypeOK'
  BY <1>1, ProfilerTypes, NobodyFits DEF ProfilerTypeOK, signals, Runnings
<1>2. Owned'
  BY <1>1, ProfilerTypes DEF ProfInv, Owned, StartPcs, StopPcs, Nobody
<1>3. Once' /\ CpuSampled'
  BY <1>1, ProfilerTypes DEF ProfInv, Owned, Once, CpuSampled, StartPcs, StopPcs, Nobody
<1>4. Unarmed'
  BY <1>1, ProfilerTypes DEF ProfInv, Owned, Once, Unarmed, StartPcs, signals, Nobody
<1>5. Counted'
  BY <1>1 DEF ProfInv, Counted, Numbered, Ended, signals
<1>6. ASSUME ~crossed' PROVE SessionsApart'
  <2>1. SessionsApart
    BY <1>1, <1>6 DEF ProfInv
  <2> QED BY <1>1, <2>1, ProfilerTypes, SampledStill
          DEF ProfInv, SessionsApart, Owned, StartPcs, StopPcs, Signalling, signals, Nobody
<1> QED BY <1>t, <1>2, <1>3, <1>4, <1>5, <1>6 DEF ProfInv

LEMMA StepFirstLine ==
  ASSUME ProfInv, NEW s \in Sessions, FirstLine(s)
  PROVE  ProfInv'
<1>1. /\ at[s] = "told"
      /\ at' = [at EXCEPT ![s] = "sleeping"] \/ at' = [at EXCEPT ![s] = "idle"]
      /\ UNCHANGED <<signals, SESSION, lock, WALL_ON, WALL_NEXT, WALL_SLOTS, sigalrm, timer, pprof,
                     oneshot, running, waits, started, crossed, strays, report>>
  BY DEF FirstLine, Steps, slot, wall, client, history
<1>t. ProfilerTypeOK'
  BY <1>1, ProfilerTypes DEF ProfilerTypeOK, signals
<1>2. Owned'
  BY <1>1, ProfilerTypes DEF ProfInv, Owned, StartPcs, StopPcs
<1>3. Once' /\ CpuSampled'
  BY <1>1, ProfilerTypes DEF ProfInv, Once, CpuSampled
<1>4. Unarmed'
  BY <1>1, ProfilerTypes DEF ProfInv, Unarmed, StartPcs, signals
<1>5. Counted'
  BY <1>1 DEF ProfInv, Counted, Numbered, Ended, signals
<1>6. ASSUME ~crossed' PROVE SessionsApart'
  <2>1. SessionsApart
    BY <1>1, <1>6 DEF ProfInv
  <2> QED BY <1>1, <2>1, ProfilerTypes, SampledStill
          DEF ProfInv, SessionsApart, Owned, StartPcs, StopPcs, Signalling, signals
<1> QED BY <1>t, <1>2, <1>3, <1>4, <1>5, <1>6 DEF ProfInv

LEMMA StepReportCpu ==
  ASSUME ProfInv, NEW s \in Sessions, ReportCpu(s)
  PROVE  ProfInv'
<1>1. /\ at[s] = "report"
      /\ at' = [at EXCEPT ![s] = "idle"]
      /\ pprof' = FALSE
      /\ running' = [running EXCEPT ![s] = Nobody]
      /\ UNCHANGED <<signals, SESSION, lock, WALL_ON, WALL_NEXT, WALL_SLOTS, sigalrm, timer,
                     oneshot, waits, started, crossed, strays, report>>
  BY DEF ReportCpu, Steps, slot, wall, client, history
<1>t. ProfilerTypeOK'
  BY <1>1, ProfilerTypes, NobodyFits DEF ProfilerTypeOK, signals
<1>2. Owned'
  BY <1>1, ProfilerTypes DEF ProfInv, Owned, StartPcs, StopPcs, Nobody
<1>3. Once' /\ CpuSampled'
  BY <1>1, ProfilerTypes DEF ProfInv, Owned, Once, CpuSampled, StartPcs, StopPcs, Nobody
<1>4. Unarmed'
  BY <1>1, ProfilerTypes DEF ProfInv, Owned, Once, Unarmed, StartPcs, signals, Nobody
<1>5. Counted'
  BY <1>1 DEF ProfInv, Counted, Numbered, Ended, signals
<1>6. ASSUME ~crossed' PROVE SessionsApart'
  <2>1. SessionsApart
    BY <1>1, <1>6 DEF ProfInv
  <2> QED BY <1>1, <2>1, ProfilerTypes, SampledStill
          DEF ProfInv, SessionsApart, Owned, StartPcs, StopPcs, Signalling, signals, Nobody
<1> QED BY <1>t, <1>2, <1>3, <1>4, <1>5, <1>6 DEF ProfInv

LEMMA StepDisarm ==
  ASSUME ProfInv, NEW s \in Sessions, Disarm(s)
  PROVE  ProfInv'
<1>1. /\ at[s] = "disarm"
      /\ at' = [at EXCEPT ![s] = "off"]
      /\ timer' = 0
      /\ UNCHANGED <<signals, SESSION, lock, WALL_ON, WALL_NEXT, WALL_SLOTS, sigalrm, pprof,
                     oneshot, running, waits, started, crossed, strays, report>>
  BY DEF Disarm, Steps, slot, wall, client, history
<1>t. ProfilerTypeOK'
  BY <1>1, ProfilerTypes DEF ProfilerTypeOK, signals
<1>2. Owned'
  BY <1>1, ProfilerTypes DEF ProfInv, Owned, StartPcs, StopPcs
<1>3. Once' /\ CpuSampled'
  BY <1>1, ProfilerTypes DEF ProfInv, Once, CpuSampled
<1>4. Unarmed'
  BY <1>1, ProfilerTypes DEF ProfInv, Owned, Unarmed, StartPcs, signals
<1>5. Counted'
  BY <1>1 DEF ProfInv, Counted, Numbered, Ended, signals
<1>6. ASSUME ~crossed' PROVE SessionsApart'
  <2>1. SessionsApart
    BY <1>1, <1>6 DEF ProfInv
  <2> QED BY <1>1, <2>1, ProfilerTypes, SampledStill
          DEF ProfInv, SessionsApart, Owned, StartPcs, StopPcs, Signalling, signals
<1> QED BY <1>t, <1>2, <1>3, <1>4, <1>5, <1>6 DEF ProfInv

LEMMA StepSwitchOff ==
  ASSUME ProfInv, NEW s \in Sessions, SwitchOff(s)
  PROVE  ProfInv'
<1>1. /\ at[s] = "off"
      /\ at' = [at EXCEPT ![s] = "sleep"]
      /\ WALL_ON' = FALSE
      /\ waits' = [waits EXCEPT ![s] = raised]
      /\ UNCHANGED <<signals, SESSION, lock, WALL_NEXT, WALL_SLOTS, sigalrm, timer, pprof, oneshot,
                     running, started, crossed, strays, report>>
  BY DEF SwitchOff, Steps, slot, wall, client, history
<1>t. ProfilerTypeOK'
  BY <1>1, ProfilerTypes DEF ProfilerTypeOK, signals
<1>2. Owned'
  BY <1>1, ProfilerTypes DEF ProfInv, Owned, StartPcs, StopPcs
<1>3. Once' /\ CpuSampled'
  BY <1>1, ProfilerTypes DEF ProfInv, Once, CpuSampled
<1>4. Unarmed'
  BY <1>1, ProfilerTypes DEF ProfInv, Unarmed, StartPcs, signals
<1>5. Counted'
  BY <1>1 DEF ProfInv, Counted, Numbered, Ended, signals
<1>6. ASSUME ~crossed' PROVE SessionsApart'
  <2>1. SessionsApart
    BY <1>1, <1>6 DEF ProfInv
  <2> QED BY <1>1, <2>1, ProfilerTypes, SampledStill
          DEF ProfInv, SessionsApart, Owned, StartPcs, StopPcs, Signalling, signals
<1> QED BY <1>t, <1>2, <1>3, <1>4, <1>5, <1>6 DEF ProfInv

LEMMA StepRestore ==
  ASSUME ProfInv, NEW s \in Sessions, Restore(s)
  PROVE  ProfInv'
<1>1. /\ at[s] = "sleep"
      /\ at' = [at EXCEPT ![s] = "snapshot"]
      /\ sigalrm' = running[s].prev
      /\ \A t \in 1..waits[s] : tick[t] = "done"
      /\ UNCHANGED <<signals, SESSION, lock, WALL_ON, WALL_NEXT, WALL_SLOTS, timer, pprof, oneshot,
                     running, waits, started, crossed, strays, report>>
  BY DEF Restore, SleepEnds, PutBack, Steps, slot, wall, client, history
<1>t. ProfilerTypeOK'
  <2>1. sigalrm' \in Dispositions
    BY <1>1, ProfilerTypes DEF Runnings
  <2> QED BY <1>1, <2>1, ProfilerTypes DEF ProfilerTypeOK, signals
<1>2. Owned'
  BY <1>1, ProfilerTypes DEF ProfInv, Owned, StartPcs, StopPcs
<1>3. Once' /\ CpuSampled'
  BY <1>1, ProfilerTypes DEF ProfInv, Once, CpuSampled
<1>4. Unarmed'
  BY <1>1, ProfilerTypes DEF ProfInv, Unarmed, StartPcs, signals
<1>5. Counted'
  BY <1>1 DEF ProfInv, Counted, Numbered, Ended, signals
<1>6. ASSUME ~crossed' PROVE SessionsApart'
  <2>1. SessionsApart
    BY <1>1, <1>6 DEF ProfInv
  <2>2. \A t \in Ticks : tick[t] \in {"none", "done"}
    BY <1>1, <2>1, ProfilerTypes DEF SessionsApart, StopPcs, ProfInv, Counted, Ticks
  <2> QED BY <1>1, <2>1, <2>2, ProfilerTypes, SampledStill
          DEF ProfInv, SessionsApart, Owned, StartPcs, StopPcs, Signalling, signals
<1> QED BY <1>t, <1>2, <1>3, <1>4, <1>5, <1>6 DEF ProfInv

LEMMA StepStartCpu ==
  ASSUME ProfInv, NEW s \in Sessions, StartCpu(s)
  PROVE  ProfInv'
<1>1. /\ at[s] = "start" /\ lock = {} /\ SESSION = Nobody
      /\ running' = [running EXCEPT ![s] = Nobody]
      /\ \/ /\ ~pprof /\ pprof' = TRUE
            /\ SESSION' = [running[s] EXCEPT !.kind = "cpu"]
            /\ at' = [at EXCEPT ![s] = AfterStart(s)]
         \/ at' = [at EXCEPT ![s] = "idle"] /\ UNCHANGED <<SESSION, pprof>>
      /\ UNCHANGED <<signals, lock, WALL_ON, WALL_NEXT, WALL_SLOTS, sigalrm, timer, oneshot,
                     waits, started, crossed, strays, report>>
  BY DEF StartCpu, Steps, slot, wall, client, history
<1>t. ProfilerTypeOK'
  <2>1. [running[s] EXCEPT !.kind = "cpu"] \in Runnings
    BY ProfilerTypes DEF Runnings
  <2> QED BY <1>1, <2>1, ProfilerTypes, NobodyFits DEF ProfilerTypeOK, signals, AfterStart
<1>o. /\ SESSION.id = 0 /\ SESSION.kind = "none" /\ AfterStart(s) \in {"told", "idle"}
      /\ running[s].id \in 1..started
  BY <1>1 DEF ProfInv, Owned, Nobody, AfterStart
<1>2. Owned'
  <2>1. ASSUME UNCHANGED SESSION, at' = [at EXCEPT ![s] = "idle"] PROVE Owned'
    BY <1>1, <2>1, ProfilerTypes DEF ProfInv, Owned, StartPcs, StopPcs
  <2>2. ASSUME SESSION' = [running[s] EXCEPT !.kind = "cpu"],
               at' = [at EXCEPT ![s] = AfterStart(s)]
        PROVE  Owned'
    <3>1. SESSION'.id \in 1..started /\ SESSION'.kind = "cpu"
      BY <1>1, <1>o, <2>2, ProfilerTypes DEF Runnings
    <3> QED BY <1>1, <1>o, <2>2, <3>1, ProfilerTypes DEF ProfInv, Owned, StartPcs, StopPcs
  <2> QED BY <1>1, <2>1, <2>2
<1>3. Once' /\ CpuSampled'
  <2>1. ASSUME UNCHANGED <<SESSION, pprof>>, at' = [at EXCEPT ![s] = "idle"]
        PROVE  Once' /\ CpuSampled'
    BY <1>1, <1>o, <2>1, ProfilerTypes DEF ProfInv, Once, CpuSampled, Nobody
  <2>2. ASSUME SESSION' = [running[s] EXCEPT !.kind = "cpu"], ~pprof, pprof' = TRUE,
               at' = [at EXCEPT ![s] = AfterStart(s)]
        PROVE  Once' /\ CpuSampled'
    <3>1. SESSION'.id = running[s].id /\ SESSION'.kind = "cpu"
      BY <1>1, <2>2, ProfilerTypes DEF Runnings
    <3>2. running'[s].id = 0
      BY <1>1, ProfilerTypes DEF Nobody
    <3>3. Once'
      BY <1>1, <1>o, <2>2, <3>1, <3>2, ProfilerTypes DEF ProfInv, Once
    <3>4. CpuSampled'
      BY <1>1, <1>o, <2>2, <3>1, ProfilerTypes DEF ProfInv, CpuSampled
    <3> QED BY <3>3, <3>4
  <2> QED BY <1>1, <2>1, <2>2
<1>4. Unarmed'
  BY <1>1, ProfilerTypes DEF ProfInv, Owned, Once, Unarmed, StartPcs, signals, Nobody, AfterStart
<1>5. Counted'
  BY <1>1 DEF ProfInv, Counted, Numbered, Ended, signals
<1>6. ASSUME ~crossed' PROVE SessionsApart'
  <2>1. SessionsApart
    BY <1>1, <1>6 DEF ProfInv
  <2>2. SESSION'.kind # "wall"
    BY <1>1, ProfilerTypes DEF Runnings, Nobody
  <2> QED BY <1>1, <2>1, <2>2, ProfilerTypes, SampledStill
          DEF ProfInv, SessionsApart, Owned, StartPcs, StopPcs, Signalling, signals, Nobody,
              AfterStart
<1> QED BY <1>t, <1>2, <1>3, <1>4, <1>5, <1>6 DEF ProfInv

LEMMA StepTake ==
  ASSUME ProfInv, NEW s \in Sessions, Take(s)
  PROVE  ProfInv'
<1>1. /\ lock = {} /\ at[s] \in {"idle", "sleeping"}
      /\ \/ /\ at' = [at EXCEPT ![s] = "idle"]
            /\ UNCHANGED <<SESSION, running>>
         \/ /\ SESSION # Nobody /\ SESSION' = Nobody
            /\ running' = [running EXCEPT ![s] = SESSION]
            /\ at' = [at EXCEPT ![s] = IF SESSION.kind = "cpu" THEN "report" ELSE "disarm"]
      /\ UNCHANGED <<signals, lock, WALL_ON, WALL_NEXT, WALL_SLOTS, sigalrm, timer, pprof, oneshot,
                     waits, started, crossed, strays, report>>
  BY DEF Take, SlotTaken, slot, wall, client, history
<1>t. ProfilerTypeOK'
  BY <1>1, ProfilerTypes, NobodyFits DEF ProfilerTypeOK, signals
<1>o. /\ SESSION # Nobody => SESSION.id \in 1..started /\ SESSION.kind \in {"cpu", "wall"}
      /\ SESSION = Nobody => SESSION.id = 0 /\ SESSION.kind = "none"
  BY DEF ProfInv, Owned, Nobody
<1>2. Owned'
  <2>1. ASSUME UNCHANGED running, at' = [at EXCEPT ![s] = "idle"], UNCHANGED SESSION
        PROVE  Owned'
    BY <1>1, <2>1, ProfilerTypes DEF ProfInv, Owned, StartPcs, StopPcs
  <2>2. ASSUME SESSION # Nobody, SESSION' = Nobody, running' = [running EXCEPT ![s] = SESSION],
               at' = [at EXCEPT ![s] = IF SESSION.kind = "cpu" THEN "report" ELSE "disarm"]
        PROVE  Owned'
    BY <1>1, <1>o, <2>2, ProfilerTypes DEF ProfInv, Owned, StartPcs, StopPcs
  <2> QED BY <1>1, <2>1, <2>2
<1>3. Once' /\ CpuSampled'
  <2>1. ASSUME UNCHANGED running, at' = [at EXCEPT ![s] = "idle"], UNCHANGED SESSION
        PROVE  Once' /\ CpuSampled'
    BY <1>1, <2>1, ProfilerTypes DEF ProfInv, Once, CpuSampled
  <2>2. ASSUME SESSION # Nobody, SESSION' = Nobody, running' = [running EXCEPT ![s] = SESSION],
               at' = [at EXCEPT ![s] = IF SESSION.kind = "cpu" THEN "report" ELSE "disarm"]
        PROVE  Once' /\ CpuSampled'
    <3>1. SESSION'.id = 0 /\ SESSION'.kind = "none"
      BY <2>2 DEF Nobody
    <3>2. Once'
      BY <1>1, <1>o, <2>2, <3>1, ProfilerTypes DEF ProfInv, Once
    <3>3. CpuSampled'
      BY <1>1, <1>o, <2>2, <3>1, ProfilerTypes DEF ProfInv, CpuSampled
    <3> QED BY <3>2, <3>3
  <2> QED BY <1>1, <2>1, <2>2
<1>4. Unarmed'
  BY <1>1, ProfilerTypes DEF ProfInv, Owned, Once, Unarmed, StartPcs, signals, Nobody
<1>5. Counted'
  BY <1>1 DEF ProfInv, Counted, Numbered, Ended, signals
<1>6. ASSUME ~crossed' PROVE SessionsApart'
  <2>1. SessionsApart
    BY <1>1, <1>6 DEF ProfInv
  <2> QED BY <1>1, <2>1, ProfilerTypes, SampledStill
          DEF ProfInv, SessionsApart, Owned, StartPcs, StopPcs, Signalling, signals, Nobody
<1> QED BY <1>t, <1>2, <1>3, <1>4, <1>5, <1>6 DEF ProfInv

\* What a snapshot reads of a profile whose handlers are through.
LEMMA Shown ==
  ASSUME ProfInv, NEW p \in Profiles, Sampled(p), \A t \in Ticks : tick[t] \in {"none", "done"}
  PROVE  /\ \A i \in Valid : WALL_SLOTS[i] = p
         /\ RawSamples = IF WALL_NEXT < WALL_CAP THEN WALL_NEXT ELSE WALL_CAP
<1>0. p # 0 /\ WALL_CAP \in Nat \ {0} /\ WALL_NEXT \in Nat
  BY ProfilerTypes DEF Profiles
<1>1. ASSUME NEW i \in Valid PROVE WALL_SLOTS[i] = p
  <2>1. i \in 0..(WALL_CAP - 1) /\ i + 1 \in 1..WALL_NEXT
    BY <1>0 DEF Valid, Places
  <2>2. PICK t \in Samples(p) : seq[t] = i + 1
    BY <2>1 DEF Sampled
  <2>3. Place(t) = i
    BY <1>0, <2>1, <2>2 DEF Place
  <2>4. tick[t] = "done"
    BY <2>2 DEF Samples, ProfInv, Counted
  <2> QED BY <2>2, <2>3, <2>4 DEF Sampled
<1>2. {i \in Valid : WALL_SLOTS[i] # 0} = Valid
  BY <1>0, <1>1
<1>3. CASE WALL_NEXT < WALL_CAP
  <2>1. Valid = 0..(WALL_NEXT - 1)
    BY <1>0, <1>3 DEF Valid, Places
  <2>2. Cardinality(0..(WALL_NEXT - 1)) = WALL_NEXT
    BY <1>0, FS_Interval
  <2> QED BY <1>1, <1>2, <1>3, <2>1, <2>2 DEF RawSamples
<1>4. CASE ~(WALL_NEXT < WALL_CAP)
  <2>1. Valid = 0..(WALL_CAP - 1)
    BY <1>0, <1>4 DEF Valid, Places
  <2>2. Cardinality(0..(WALL_CAP - 1)) = WALL_CAP
    BY <1>0, FS_Interval
  <2> QED BY <1>1, <1>2, <1>4, <2>1, <2>2 DEF RawSamples
<1> QED BY <1>3, <1>4

LEMMA StepSnapshot ==
  ASSUME ProfInv, NEW s \in Sessions, Snapshot(s)
  PROVE  ProfInv'
<1>0. PICK p \in Profiles : p = running[s].id
  <2>1. at[s] = "snapshot"
    BY DEF Snapshot, Steps
  <2> QED BY <2>1, ProfilerTypes DEF ProfInv, Owned, Profiles
<1> DEFINE r == [raw |-> RawSamples, from |-> {WALL_SLOTS[i] : i \in Valid} \ {0},
                 sampled |-> Cardinality(Samples(p))]
<1>1. /\ at[s] = "snapshot" /\ at' = [at EXCEPT ![s] = "idle"]
      /\ running' = [running EXCEPT ![s] = Nobody]
      /\ report' = [report EXCEPT ![p] = r]
      /\ UNCHANGED <<signals, SESSION, lock, WALL_ON, WALL_NEXT, WALL_SLOTS, sigalrm, timer, pprof,
                     oneshot, waits, started, crossed, strays>>
  BY <1>0 DEF Snapshot, Samples, Steps, slot, wall, client, history
<1>r. r \in [raw : 0..WALL_CAP, from : SUBSET Profiles, sampled : 0..MaxTicks]
  <2>1. Cardinality(Samples(p)) \in 0..MaxTicks
    BY Cards DEF Samples
  <2>2. {WALL_SLOTS[i] : i \in Valid} \ {0} \subseteq Profiles
    BY ProfilerTypes DEF Valid, Profiles
  <2>3. RawSamples \in 0..WALL_CAP
    <3>1. IsFiniteSet(0..(WALL_CAP - 1)) /\ Cardinality(0..(WALL_CAP - 1)) = WALL_CAP
      <4>1. WALL_CAP \in Nat \ {0} /\ 0 \in Int /\ WALL_CAP - 1 \in Int
        BY ProfilerTypes
      <4> QED BY <4>1, FS_Interval
    <3>2. {i \in Valid : WALL_SLOTS[i] # 0} \subseteq 0..(WALL_CAP - 1)
      BY DEF Valid, Places
    <3> QED BY <3>1, <3>2, FS_Subset, FS_CardinalityType, ProfilerTypes DEF RawSamples
  <2> QED BY <2>1, <2>2, <2>3
<1> HIDE DEF r
<1>t. ProfilerTypeOK'
  BY <1>1, <1>r, ProfilerTypes, NobodyFits DEF ProfilerTypeOK, signals
<1>2. Owned'
  BY <1>1, ProfilerTypes DEF ProfInv, Owned, StartPcs, StopPcs, Nobody
<1>3. Once' /\ CpuSampled'
  BY <1>1, ProfilerTypes DEF ProfInv, Owned, Once, CpuSampled, StartPcs, StopPcs, Nobody
<1>4. Unarmed'
  BY <1>1, ProfilerTypes DEF ProfInv, Owned, Once, Unarmed, StartPcs, signals, Nobody
<1>5. Counted'
  BY <1>1 DEF ProfInv, Counted, Numbered, Ended, signals
<1>6. ASSUME ~crossed' PROVE SessionsApart'
  <2>1. SessionsApart
    BY <1>1, <1>6 DEF ProfInv
  <2>2. Sampled(p) /\ \A t \in Ticks : tick[t] \in {"none", "done"}
    BY <1>0, <1>1, <2>1 DEF SessionsApart, StopPcs
  <2>3. /\ r.from \subseteq {p}
        /\ r.raw = IF r.sampled < WALL_CAP THEN r.sampled ELSE WALL_CAP
    BY <2>2, Shown DEF r, Sampled
  <2>4. \A q \in Profiles :
          /\ report'[q].from \subseteq {q}
          /\ report'[q].raw = IF report'[q].sampled < WALL_CAP THEN report'[q].sampled ELSE WALL_CAP
    BY <1>1, <2>1, <2>3, ProfilerTypes DEF SessionsApart
  <2> QED BY <1>1, <2>1, <2>2, <2>4, ProfilerTypes, SampledStill
          DEF ProfInv, SessionsApart, Owned, StartPcs, StopPcs, Signalling, signals, Nobody
<1> QED BY <1>t, <1>2, <1>3, <1>4, <1>5, <1>6 DEF ProfInv

\* A step of the kernel or of a handler moves no connection.
LEMMA ClientsStill ==
  ASSUME ProfInv, UNCHANGED <<slot, pprof, client, started>>
  PROVE  Owned' /\ Once' /\ CpuSampled'
BY DEF ProfInv, Owned, Once, CpuSampled, slot, client

LEMMA StepRaise == ASSUME ProfInv, Raise PROVE ProfInv'
<1> DEFINE n == raised + 1
<1>1. /\ timer # 0 /\ raised < MaxTicks /\ raised' = n
      /\ tick' = [tick EXCEPT ![n] = "pending"] /\ origin' = [origin EXCEPT ![n] = timer]
      /\ UNCHANGED <<slot, wall, pprof, client, seq, history>>
  BY DEF Raise
<1>2. n \in Ticks /\ n \in 1..MaxTicks /\ tick[n] = "none" /\ seq[n] = 0
  BY <1>1, ProfilerTypes DEF Ticks, ProfInv, Counted
<1> HIDE DEF n
<1>t. ProfilerTypeOK'
  BY <1>1, <1>2, ProfilerTypes DEF ProfilerTypeOK, slot, wall, client, history
<1>3. Owned' /\ Once' /\ CpuSampled'
  BY <1>1, ClientsStill DEF history
<1>4. Unarmed'
  BY <1>1, <1>2, ProfilerTypes DEF ProfInv, Unarmed, client, wall, history
<1>5. Counted'
  <2>1. Numbered' = Numbered
    BY <1>1 DEF Numbered
  <2>2. Ended' = Ended
    BY <1>1, <1>2, ProfilerTypes DEF Ended
  <2>3. \A t \in Ticks : t > raised' => t > raised /\ t # n
    BY <1>1, ProfilerTypes DEF n, Ticks
  <2> QED BY <1>1, <1>2, <2>1, <2>2, <2>3, ProfilerTypes DEF ProfInv, Counted, wall, history
<1>6. ASSUME ~crossed' PROVE SessionsApart'
  <2>1. SessionsApart
    BY <1>1, <1>6 DEF ProfInv, history
  <2>2. ASSUME NEW p, Sampled(p) PROVE Sampled(p)'
    <3>1. Samples(p)' = Samples(p)
      BY <1>1, <1>2, ProfilerTypes DEF Samples
    <3>2. \A t \in Samples(p) : t # n
      BY <1>2 DEF Samples
    <3> QED BY <1>1, <2>2, <3>1, <3>2, ProfilerTypes DEF Sampled, Place, wall, Samples
  <2>3. \/ SESSION.kind = "wall" /\ timer = SESSION.id
        \/ \E s \in Sessions : at[s] = "disarm" /\ timer = running[s].id
    BY <1>1, <2>1 DEF SessionsApart, StopPcs
  <2>4. \A s \in Sessions : at[s] \notin {"sleep", "snapshot"}
    BY <1>1, <2>1, <2>3 DEF SessionsApart, StopPcs
  <2> QED BY <1>1, <1>2, <2>1, <2>2, <2>3, <2>4, ProfilerTypes
          DEF SessionsApart, StartPcs, StopPcs, Signalling, slot, wall, client, history
<1> QED BY <1>t, <1>3, <1>4, <1>5, <1>6 DEF ProfInv

\* A handler at work in histories that kept sessions apart is of the profile
\* that is sampled now: in the slot, or with the one that stops it.
LEMMA Whose ==
  ASSUME SessionsApart, NEW t \in Ticks, tick[t] \notin {"none", "done"}
  PROVE  /\ sigalrm = "rthas" /\ Sampled(origin[t])
         /\ \A s \in Sessions : at[s] # "snapshot"
         /\ SESSION.kind = "wall" => SESSION.id = origin[t]
         /\ \A s \in Sessions : at[s] \in StopPcs => running[s].id = origin[t]
BY DEF SessionsApart, StopPcs, Signalling

LEMMA StepReceive == ASSUME ProfInv, NEW t \in Ticks, Receive(t) PROVE ProfInv'
<1>1. /\ tick[t] = "pending"
      /\ tick' = [tick EXCEPT ![t] = IF sigalrm = "rthas" THEN "check" ELSE "done"]
      /\ strays' = IF sigalrm = "rthas" THEN strays ELSE strays + 1
      /\ UNCHANGED <<slot, wall, pprof, client, raised, seq, origin, started, crossed, report>>
  BY DEF Receive, Moves
<1>2. t <= raised /\ seq[t] = 0
  BY <1>1, ProfilerTypes DEF ProfInv, Counted, Ticks
<1>3. Owned' /\ Once' /\ CpuSampled'
  BY <1>1, ClientsStill
<1>4. Unarmed'
  BY <1>1, ProfilerTypes DEF ProfInv, Unarmed, client, wall
<1>5. strays' \in 0..MaxTicks /\ Counted'
  <2>1. Numbered' = Numbered
    BY <1>1 DEF Numbered
  <2>2. CASE sigalrm = "rthas"
    <3>1. Ended' = Ended
      BY <1>1, <2>2, ProfilerTypes DEF Ended
    <3> QED BY <1>1, <1>2, <2>1, <2>2, <3>1, ProfilerTypes DEF ProfInv, Counted, wall
  <2>3. CASE sigalrm # "rthas"
    <3>1. Ended' = Ended \cup {t} /\ t \notin Ended
      BY <1>1, <2>3, ProfilerTypes DEF Ended
    <3>2. IsFiniteSet(Ended) /\ Cardinality(Ended) \in 0..MaxTicks /\ Ended' \in SUBSET Ticks
      BY Cards DEF Ended
    <3>3. Cardinality(Ended') = Cardinality(Ended) + 1 /\ Cardinality(Ended') \in 0..MaxTicks
      BY <3>1, <3>2, Cards, FS_AddElement
    <3>4. strays' <= Cardinality(Ended') /\ strays' \in 0..MaxTicks
      BY <1>1, <2>3, <3>2, <3>3, ProfilerTypes DEF ProfInv, Counted
    <3> QED BY <1>1, <1>2, <2>1, <2>3, <3>4, ProfilerTypes DEF ProfInv, Counted, wall
  <2> QED BY <2>2, <2>3
<1>t. ProfilerTypeOK'
  BY <1>1, <1>5, ProfilerTypes DEF ProfilerTypeOK, slot, wall, client
<1>6. ASSUME ~crossed' PROVE SessionsApart'
  <2>1. SessionsApart
    BY <1>1, <1>6 DEF ProfInv
  <2>2. sigalrm = "rthas"
    BY <1>1, <2>1, Whose
  <2>3. ASSUME NEW p, Sampled(p) PROVE Sampled(p)'
    BY <1>1, <1>2, <2>2, <2>3, ProfilerTypes DEF Sampled, Samples, Place, wall
  <2>4. \A s \in Sessions : at[s] # "snapshot"
    BY <1>1, <2>1, Whose
  <2> QED BY <1>1, <2>1, <2>2, <2>3, <2>4, ProfilerTypes
          DEF SessionsApart, StartPcs, StopPcs, Signalling, slot, wall, client
<1> QED BY <1>t, <1>3, <1>4, <1>5, <1>6 DEF ProfInv

LEMMA StepCheck == ASSUME ProfInv, NEW t \in Ticks, Check(t) PROVE ProfInv'
<1>1. /\ tick[t] = "check"
      /\ tick' = [tick EXCEPT ![t] = IF WALL_ON THEN "draw" ELSE "done"]
      /\ UNCHANGED <<slot, wall, pprof, client, raised, seq, origin, history>>
  BY DEF Check, Moves
<1>2. t <= raised /\ seq[t] = 0
  BY <1>1, ProfilerTypes DEF ProfInv, Counted, Ticks
<1>t. ProfilerTypeOK'
  BY <1>1, ProfilerTypes DEF ProfilerTypeOK, slot, wall, client, history
<1>3. Owned' /\ Once' /\ CpuSampled'
  BY <1>1, ClientsStill DEF history
<1>4. Unarmed'
  BY <1>1, ProfilerTypes DEF ProfInv, Unarmed, client, wall, history
<1>5. Counted'
  <2>1. Numbered' = Numbered /\ Ended \subseteq Ended'
    BY <1>1, ProfilerTypes DEF Numbered, Ended
  <2>2. IsFiniteSet(Ended') /\ Cardinality(Ended) \in Nat /\ Cardinality(Ended') \in Nat
    <3>1. Ended \in SUBSET Ticks /\ Ended' \in SUBSET Ticks
      BY DEF Ended
    <3> QED BY <3>1, Cards
  <2>3. Cardinality(Ended) <= Cardinality(Ended')
    BY <2>1, <2>2, FS_Subset
  <2> QED BY <1>1, <1>2, <2>1, <2>2, <2>3, ProfilerTypes DEF ProfInv, Counted, wall, history
<1>6. ASSUME ~crossed' PROVE SessionsApart'
  <2>1. SessionsApart
    BY <1>1, <1>6 DEF ProfInv, history
  <2>2. ASSUME NEW p, Sampled(p) PROVE Sampled(p)'
    BY <1>1, <1>2, <2>2, ProfilerTypes DEF Sampled, Samples, Place, wall
  <2>3. \A s \in Sessions : at[s] # "snapshot"
    BY <1>1, <2>1, Whose
  <2> QED BY <1>1, <2>1, <2>2, <2>3, ProfilerTypes
          DEF SessionsApart, StartPcs, StopPcs, Signalling, slot, wall, client, history
<1> QED BY <1>t, <1>3, <1>4, <1>5, <1>6 DEF ProfInv

LEMMA StepDrawNumber == ASSUME ProfInv, NEW t \in Ticks, DrawNumber(t) PROVE ProfInv'
<1>1. /\ tick[t] = "draw" /\ tick' = [tick EXCEPT ![t] = "write"]
      /\ seq' = [seq EXCEPT ![t] = WALL_NEXT + 1] /\ WALL_NEXT' = WALL_NEXT + 1
      /\ UNCHANGED <<slot, WALL_ON, WALL_SLOTS, sigalrm, timer, pprof, client, raised, origin,
                     history>>
  BY DEF DrawNumber, Moves
<1>2. t <= raised /\ seq[t] = 0
  BY <1>1, ProfilerTypes DEF ProfInv, Counted, Ticks
<1>3. Owned' /\ Once' /\ CpuSampled'
  BY <1>1, ClientsStill DEF history
<1>4. Unarmed'
  BY <1>1, ProfilerTypes DEF ProfInv, Unarmed, client, history
<1>5. WALL_NEXT' \in 0..MaxTicks /\ Counted'
  <2>1. Numbered' = Numbered \cup {t} /\ t \notin Numbered
    BY <1>1, <1>2, ProfilerTypes DEF Numbered
  <2>2. IsFiniteSet(Numbered) /\ Cardinality(Numbered) \in 0..MaxTicks /\ Numbered' \in SUBSET Ticks
    BY Cards DEF Numbered
  <2>3. Cardinality(Numbered') = Cardinality(Numbered) + 1 /\ Cardinality(Numbered') \in 0..MaxTicks
    BY <2>1, <2>2, Cards, FS_AddElement
  <2>4. Ended' = Ended
    BY <1>1, ProfilerTypes DEF Ended
  <2>5. WALL_NEXT' <= Cardinality(Numbered') /\ WALL_NEXT' \in 0..MaxTicks
    BY <1>1, <2>2, <2>3, ProfilerTypes DEF ProfInv, Counted
  <2> QED BY <1>1, <1>2, <2>4, <2>5, ProfilerTypes DEF ProfInv, Counted, history
<1>t. ProfilerTypeOK'
  BY <1>1, <1>5, ProfilerTypes DEF ProfilerTypeOK, slot, client, history
<1>6. ASSUME ~crossed' PROVE SessionsApart'
  <2>1. SessionsApart
    BY <1>1, <1>6 DEF ProfInv, history
  <2>p. PICK p \in 0..MaxStarts : p = origin[t]
    BY ProfilerTypes
  <2>2. Sampled(p)'
    <3>1. Sampled(p)
      BY <1>1, <2>p, <2>1, Whose
    <3>2. Samples(p)' = Samples(p) \cup {t} /\ t \notin Samples(p)
      BY <1>1, <1>2, <2>p, ProfilerTypes DEF Samples
    <3>3. IsFiniteSet(Samples(p)) /\ Cardinality(Samples(p)) \in Nat
      BY Cards DEF Samples
    <3>4. Cardinality(Samples(p)') = Cardinality(Samples(p)) + 1
      BY <3>2, <3>3, FS_AddElement
    <3>5. WALL_NEXT' = Cardinality(Samples(p)')
      BY <1>1, <3>1, <3>4 DEF Sampled
    <3>6. ASSUME NEW i \in 1..WALL_NEXT' PROVE \E u \in Samples(p)' : seq'[u] = i
      <4>1. CASE i = WALL_NEXT + 1
        <5>1. seq'[t] = i
          BY <1>1, <4>1, ProfilerTypes
        <5> QED BY <3>2, <5>1
      <4>2. CASE i # WALL_NEXT + 1
        <5>1. i \in 1..WALL_NEXT
          BY <1>1, <4>2, ProfilerTypes
        <5>2. PICK u \in Samples(p) : seq[u] = i
          BY <3>1, <5>1 DEF Sampled
        <5>3. seq'[u] = i
          BY <1>1, <3>2, <5>2, ProfilerTypes DEF Samples
        <5> QED BY <3>2, <5>2, <5>3
      <4> QED BY <4>1, <4>2
    <3>7. \A u \in Samples(p)' : tick'[u] = "done" => WALL_SLOTS'[Place(u)'] = p
      BY <1>1, <1>2, <3>1, <3>2, ProfilerTypes DEF Sampled, Samples, Place
    <3> QED BY <3>5, <3>6, <3>7 DEF Sampled
  <2>3. \A s \in Sessions : at[s] \notin StartPcs \cup {"snapshot"}
    <3>1. ASSUME NEW s \in Sessions, at[s] \in StartPcs PROVE FALSE
      <4>1. lock # {} /\ SESSION.kind # "wall"
        BY <3>1 DEF ProfInv, Owned, Nobody
      <4>2. PICK o \in Sessions : at[o] \in Signalling
        BY <1>1, <2>1, <4>1 DEF SessionsApart
      <4> QED BY <2>1, <4>1, <4>2 DEF SessionsApart, Signalling, StopPcs
    <3> QED BY <1>1, <2>1, <3>1, Whose
  <2> QED BY <1>1, <2>1, <2>p, <2>2, <2>3, Whose, ProfilerTypes
          DEF SessionsApart, StartPcs, StopPcs, Signalling, slot, client, history
<1> QED BY <1>t, <1>3, <1>4, <1>5, <1>6 DEF ProfInv

LEMMA StepWrite == ASSUME ProfInv, NEW t \in Ticks, Write(t) PROVE ProfInv'
<1>1. /\ tick[t] = "write" /\ tick' = [tick EXCEPT ![t] = "done"]
      /\ WALL_SLOTS' = [WALL_SLOTS EXCEPT ![Place(t)] = origin[t]]
      /\ UNCHANGED <<slot, WALL_ON, WALL_NEXT, sigalrm, timer, pprof, client, raised, seq, origin,
                     history>>
  BY DEF Write, Moves
<1>2. t <= raised /\ seq[t] # 0
  BY <1>1, ProfilerTypes DEF ProfInv, Counted, Ticks
<1>t. ProfilerTypeOK'
  BY <1>1, ProfilerTypes DEF ProfilerTypeOK, slot, client, history
<1>3. Owned' /\ Once' /\ CpuSampled'
  BY <1>1, ClientsStill DEF history
<1>4. Unarmed'
  BY <1>1, ProfilerTypes DEF ProfInv, Unarmed, client, history
<1>5. Counted'
  <2>1. Numbered' = Numbered /\ Ended \subseteq Ended'
    BY <1>1, ProfilerTypes DEF Numbered, Ended
  <2>2. IsFiniteSet(Ended') /\ Cardinality(Ended) \in Nat /\ Cardinality(Ended') \in Nat
    <3>1. Ended \in SUBSET Ticks /\ Ended' \in SUBSET Ticks
      BY DEF Ended
    <3> QED BY <3>1, Cards
  <2>3. Cardinality(Ended) <= Cardinality(Ended')
    BY <2>1, <2>2, FS_Subset
  <2> QED BY <1>1, <1>2, <2>1, <2>2, <2>3, ProfilerTypes DEF ProfInv, Counted, history
<1>6. ASSUME ~crossed' PROVE SessionsApart'
  <2>1. SessionsApart
    BY <1>1, <1>6 DEF ProfInv, history
  <2>2. PICK p \in 0..MaxStarts : p = origin[t]
    BY ProfilerTypes
  <2>3. Sampled(p)'
    <3>1. Sampled(p)
      BY <1>1, <2>1, <2>2, Whose
    <3>2. ASSUME NEW u \in Ticks, seq[u] # 0 PROVE Place(u) \in Places
      <4>1. seq[u] - 1 \in Nat /\ WALL_CAP \in Nat \ {0}
        BY <3>2, ProfilerTypes
      <4>2. (seq[u] - 1) % WALL_CAP \in 0..(WALL_CAP - 1)
        BY <4>1
      <4> QED BY <4>2 DEF Place, Places
    <3>3. \A u \in Ticks : Place(u)' = Place(u)
      BY <1>1 DEF Place
    <3>4. Samples(p)' = Samples(p)
      BY <1>1 DEF Samples
    <3>5. \A u \in Samples(p) : tick'[u] = "done" => WALL_SLOTS'[Place(u)] = p
      BY <1>1, <1>2, <2>2, <3>1, <3>2, ProfilerTypes DEF Sampled, Samples
    <3> QED BY <1>1, <3>1, <3>3, <3>4, <3>5 DEF Sampled, Samples
  <2>4. \A s \in Sessions : at[s] # "snapshot"
    BY <1>1, <2>1, Whose
  <2> QED BY <1>1, <2>1, <2>2, <2>3, <2>4, Whose, ProfilerTypes
          DEF SessionsApart, StartPcs, StopPcs, Signalling, slot, client, history
<1> QED BY <1>t, <1>3, <1>4, <1>5, <1>6 DEF ProfInv

LEMMA StepProf == ProfInv /\ [Next]_profilerVars => ProfInv'
<1> SUFFICES ASSUME ProfInv, [Next]_profilerVars PROVE ProfInv'
  OBVIOUS
<1>1. ASSUME NEW s \in Sessions,
             \/ Start(s) \/ Oneshot(s) \/ AlreadyRunning(s) \/ StartCpu(s) \/ StartWall(s)
             \/ ZeroNext(s) \/ SwitchOn(s) \/ Install(s) \/ Arm(s) \/ CannotArm(s)
      PROVE  ProfInv'
  <2>1. TRUE \in BOOLEAN /\ FALSE \in BOOLEAN
    OBVIOUS
  <2>2. CASE Start(s) \/ Oneshot(s)
    BY <2>1, <2>2, StepAsks DEF Start, Oneshot
  <2> QED BY <1>1, <2>2, StepAlreadyRunning, StepStartCpu, StepStartWall, StepZeroNext,
             StepSwitchOn, StepInstall, StepArm, StepCannotArm
<1>2. ASSUME NEW s \in Sessions,
             \/ FirstLine(s) \/ Take(s) \/ ReportCpu(s) \/ Disarm(s) \/ SwitchOff(s)
             \/ Restore(s) \/ Snapshot(s)
      PROVE  ProfInv'
  BY <1>2, StepFirstLine, StepTake, StepReportCpu, StepDisarm, StepSwitchOff, StepRestore,
     StepSnapshot
<1>3. ASSUME NEW t \in Ticks, Receive(t) \/ Check(t) \/ DrawNumber(t) \/ Write(t) PROVE ProfInv'
  BY <1>3, StepReceive, StepCheck, StepDrawNumber, StepWrite
<1>4. CASE UNCHANGED profilerVars
  <2>1. Owned' /\ Once' /\ CpuSampled'
    BY <1>4, ClientsStill DEF profilerVars, history
  <2>2. Unarmed' /\ Counted'
    BY <1>4
    DEF profilerVars, slot, wall, client, signals, history, ProfInv, Unarmed, Counted, Numbered,
        Ended
  <2>3. ~crossed' => SessionsApart'
    BY <1>4, SampledStill
    DEF profilerVars, slot, wall, client, signals, history, ProfInv, SessionsApart, Signalling
  <2>4. ProfilerTypeOK'
    BY <1>4 DEF profilerVars, slot, wall, client, signals, history, ProfInv, ProfilerTypeOK
  <2> QED BY <2>1, <2>2, <2>3, <2>4 DEF ProfInv
<1> QED BY <1>1, <1>2, <1>3, <1>4, StepRaise DEF Next

\* Of wall-clock sessions none of which was started while another was being
\* stopped: the program has its SIGALRM handler back and meets no signal of
\* rthas's timer, what runs is sampled, and a snapshot is of its own session
\* and of all of it; and always, one client only stops a session.
THEOREM EachSessionAlone == Spec => []SessionsKeptApart
<1>1. ProfInv => SessionsKeptApart
  <2> SUFFICES ASSUME ProfInv PROVE SessionsKeptApart
    OBVIOUS
  <2>1. ProgramIsLeftAlone
    BY DEF ProfInv, SessionsApart, ProgramIsLeftAlone, HandlerOnlyWhileRunning, Starting, Stopping,
           StartPcs, StopPcs
  <2>2. RunningMeansSampling
    BY DEF ProfInv, SessionsApart, CpuSampled, RunningMeansSampling
  <2>3. SnapshotIsItsOwn
    BY DEF ProfInv, SessionsApart, SnapshotIsItsOwn
  <2>4. StoppedOnce
    <3>1. ASSUME NEW s \in Sessions,
                 at[s] \in {"report", "disarm", "off", "sleep", "snapshot"}
          PROVE  running[s].id # 0
      BY <3>1 DEF ProfInv, Owned
    <3> QED BY <3>1 DEF ProfInv, Once, StoppedOnce
  <2> QED BY <2>1, <2>2, <2>3, <2>4 DEF ProfInv, SessionsKeptApart
<1> QED BY InitProf, StepProf, <1>1, PTL DEF Spec
=============================================================================
