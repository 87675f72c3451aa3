----------------------------- MODULE ThreadDump -----------------------------
(***************************************************************************)
(* rthas/src/thread_dump.rs: the native stacks of `thread --stack`.  A     *)
(* dump signals the threads it wants, waits, and reads what their handlers *)
(* have left in a static array.  Any two connections may dump at once, and *)
(* nothing keeps them apart.                                               *)
(*                                                                         *)
(* A stack is a thread and its depth when it was looked at; that the       *)
(* unwinder and the symboliser see more is left out.  A slot is [tid, ips],*)
(* with tid = NoThread while it was never written.                         *)
(***************************************************************************)
EXTENDS Naturals, FiniteSets

CONSTANTS
  Targets,      \* threads of the program
  Dumpers,      \* connections of the agent, which run a dump each at a time
  NoThread,
  MAX_THREADS,  \* slots
  Wanted,       \* the sets of threads a dump may ask for
  MaxStack,     \* bound of the depth of a thread
  MaxDumps      \* bound of the dumps

ASSUME DumpAssumption ==
  /\ MAX_THREADS \in Nat /\ MaxStack \in Nat \ {0} /\ MaxDumps \in Nat
  /\ Wanted \subseteq SUBSET (Targets \cup Dumpers)

VARIABLES
  ACTIVE, NEXT, SLOTS,     \* the statics
  handler,                 \* the disposition of SIGURG: "app" or "on_sigurg"
  stack, pending,          \* of each thread: what it does, and SIGURG for it
  hpc, drawn,              \* of each thread: in its handler, and with which slot
  pc, prev, want, result,  \* of each dumper
  dumps,
  alone, answered, overlapped  \* history

statics == <<ACTIVE, NEXT, SLOTS>>
thread == <<stack, pending, hpc, drawn>>
dumper == <<pc, prev, want, result>>
ghosts == <<alone, answered, overlapped>>
vars == <<statics, handler, thread, dumper, dumps, ghosts>>

Threads == Targets \cup Dumpers
Slots == 0..(MAX_THREADS - 1)
None == <<NoThread, 0>>  \* no stack

DumpInit ==
  /\ ACTIVE = FALSE /\ NEXT = 0 /\ SLOTS = [i \in Slots |-> [tid |-> NoThread, ips |-> None]]
  /\ handler = "app"
  /\ stack = [t \in Threads |-> 1] /\ pending = [t \in Threads |-> FALSE]
  /\ hpc = [t \in Threads |-> "out"] /\ drawn = [t \in Threads |-> 0]
  /\ pc = [d \in Dumpers |-> "idle"] /\ prev = [d \in Dumpers |-> "none"]
  /\ want = [d \in Dumpers |-> {}] /\ result = [d \in Dumpers |-> [t \in Threads |-> None]]
  /\ dumps = 0
  /\ alone = [d \in Dumpers |-> FALSE] /\ overlapped = FALSE
  /\ answered = [d \in Dumpers |-> {}]

-----------------------------------------------------------------------------
(* The threads.                                                             *)

\* A thread goes on with something else.
Work(t) ==
  /\ t \in Targets /\ hpc[t] = "out" /\ stack[t] < MaxStack
  /\ stack' = [stack EXCEPT ![t] = @ + 1]
  /\ UNCHANGED <<statics, handler, pending, hpc, drawn, dumper, dumps, ghosts>>

\* capture_slot, in a handler or called by the dumper: a slot is drawn, the
\* thread and its stack are written to it one after the other.
Draw(t) ==
  /\ NEXT' = NEXT + 1
  /\ drawn' = [drawn EXCEPT ![t] = NEXT]
  /\ hpc' = [hpc EXCEPT ![t] = IF NEXT >= MAX_THREADS THEN "out" ELSE "drawn"]

\* on_sigurg interrupts the thread, unless the application's own handler does.
Deliver(t) ==
  /\ pending[t] /\ hpc[t] = "out"
  /\ pending' = [pending EXCEPT ![t] = FALSE]
  /\ IF handler = "on_sigurg" /\ ACTIVE
     THEN Draw(t) ELSE UNCHANGED <<NEXT, drawn, hpc>>
  /\ UNCHANGED <<ACTIVE, SLOTS, handler, stack, dumper, dumps, ghosts>>

Running == {d \in Dumpers : pc[d] # "idle"}

WriteTid(t) ==
  /\ hpc[t] = "drawn"
  /\ SLOTS' = [SLOTS EXCEPT ![drawn[t]].tid = t]
  /\ hpc' = [hpc EXCEPT ![t] = "half"]
  /\ UNCHANGED <<ACTIVE, NEXT, handler, stack, pending, drawn, dumper, dumps, ghosts>>

\* A dump is answered from when ACTIVE is set, before its own handler is
\* installed: that of an earlier dump may still be there.
Answering == {"active", "own", "signal", "wait"}

WriteIps(t) ==
  /\ hpc[t] = "half"
  /\ SLOTS' = [SLOTS EXCEPT ![drawn[t]].ips = <<t, stack[t]>>]
  /\ hpc' = [hpc EXCEPT ![t] = "out"]
  /\ answered' = [d \in Dumpers |-> answered[d] \cup
                    IF pc[d] \in Answering THEN {<<t, stack[t]>>} ELSE {}]
  /\ UNCHANGED <<ACTIVE, NEXT, handler, stack, pending, drawn, dumper, dumps, alone, overlapped>>

-----------------------------------------------------------------------------
(* capture, step by step.                                                   *)

Goes(d, from, to) == pc[d] = from /\ hpc[d] = "out" /\ pc' = [pc EXCEPT ![d] = to]

\* A handler that an earlier dump has left in flight disturbs, and so does any
\* dump that runs at the same time.
Begin(d, tids) ==
  /\ Goes(d, "idle", "begun") /\ dumps < MaxDumps
  /\ dumps' = dumps + 1
  /\ NEXT' = 0
  /\ want' = [want EXCEPT ![d] = tids]
  /\ answered' = [answered EXCEPT ![d] = {}]
  /\ alone' = [e \in Dumpers |-> IF e = d THEN Running = {} /\ \A t \in Threads : hpc[t] = "out"
                                 ELSE alone[e] /\ e \notin Running]
  /\ overlapped' = (overlapped \/ Running # {})
  /\ UNCHANGED <<ACTIVE, SLOTS, handler, thread, prev, result>>

Activate(d) ==
  /\ Goes(d, "begun", "active")
  /\ ACTIVE' = TRUE
  /\ UNCHANGED <<NEXT, SLOTS, handler, thread, prev, want, result, dumps, ghosts>>

install_handler(d) ==
  /\ Goes(d, "active", "own")
  /\ prev' = [prev EXCEPT ![d] = handler]
  /\ handler' = "on_sigurg"
  /\ UNCHANGED <<statics, thread, want, result, dumps, ghosts>>

\* The dumper takes its own stack without a signal.
Own(d) ==
  /\ Goes(d, "own", "signal")
  /\ Draw(d)
  /\ UNCHANGED <<ACTIVE, SLOTS, handler, stack, pending, prev, want, result, dumps, ghosts>>

\* signal_threads: all that are wanted but the dumper; a signal that is pending
\* already is not counted twice.
Signal(d) ==
  /\ Goes(d, "signal", "wait")
  /\ pending' = [t \in Threads |-> pending[t] \/ t \in want[d] \ {d}]
  /\ UNCHANGED <<statics, handler, stack, hpc, drawn, prev, want, result, dumps, ghosts>>

\* The sleep is over, whoever has answered: of each thread the deepest stack
\* found, those of threads nobody asked for left out.
CopiedAll(d) == {i \in Slots : SLOTS[i].ips # None}
Copied(d) == {i \in Slots : i < NEXT /\ SLOTS[i].ips # None}

Best(t, slots) ==
  LET mine == {SLOTS[i].ips : i \in {j \in slots : SLOTS[j].tid = t}}
  IN  IF mine = {} THEN None ELSE CHOOSE s \in mine : \A other \in mine : other[2] <= s[2]

Copy(d) ==
  /\ Goes(d, "wait", "copied")
  /\ result' = [result EXCEPT ![d] =
                  [t \in Threads |-> IF t \in want[d] THEN Best(t, Copied(d)) ELSE None]]
  /\ alone' = [alone EXCEPT ![d] = @ /\ \A t \in Threads : hpc[t] = "out"]
  /\ UNCHANGED <<statics, handler, thread, prev, want, dumps, answered, overlapped>>

Deactivate(d) ==
  /\ Goes(d, "copied", "restore")
  /\ ACTIVE' = FALSE
  /\ UNCHANGED <<NEXT, SLOTS, handler, thread, prev, want, result, dumps, ghosts>>

RestoreDefault(d) == "default"
Restored(d) == prev[d]

restore_handler(d) ==
  /\ Goes(d, "restore", "idle")
  /\ handler' = Restored(d)
  /\ UNCHANGED <<statics, thread, prev, want, result, dumps, ghosts>>

-----------------------------------------------------------------------------
Capture(d) ==
  \/ Activate(d) \/ install_handler(d) \/ Own(d) \/ Signal(d) \/ Copy(d)
  \/ Deactivate(d) \/ restore_handler(d)

DumpNext ==
  \/ \E t \in Threads : Work(t) \/ Deliver(t) \/ WriteTid(t) \/ WriteIps(t)
  \/ \E d \in Dumpers : Capture(d) \/ \E tids \in Wanted : Begin(d, tids)

DumpSpec == DumpInit /\ [][DumpNext]_vars

-----------------------------------------------------------------------------
\* A dump no other dump runs beside, and in which no handler is caught between
\* drawing its slot and filling it, shows of every thread it was asked for a
\* stack that very thread had when it answered this dump, or nothing: not one
\* left over from an earlier dump, not another thread's, though the slots are
\* never cleared and signals of an earlier dump may still arrive.
AloneShowsOwnStacks ==
  \A d \in Dumpers :
    pc[d] = "copied" /\ alone[d]
      => \A t \in Threads :
           result[d][t] # None => result[d][t] \in answered[d] /\ result[d][t][1] = t

\* While dumps have kept out of each other's way the application has its own
\* handler back after each, and its SIGURG with it.
HandlerComesBack == ~overlapped /\ Running = {} => handler = "app"

TypeOK ==
  /\ ACTIVE \in BOOLEAN /\ NEXT \in Nat
  /\ \A i \in Slots : SLOTS[i].tid \in Threads \cup {NoThread} /\ SLOTS[i].ips[2] \in 0..MaxStack
  /\ handler \in {"app", "on_sigurg"}
  /\ stack \in [Threads -> 1..MaxStack] /\ pending \in [Threads -> BOOLEAN]
  /\ hpc \in [Threads -> {"out", "drawn", "half"}]
  /\ \A t \in Threads : hpc[t] # "out" => drawn[t] \in Slots
  /\ pc \in [Dumpers -> {"idle", "begun", "active", "own", "signal", "wait", "copied", "restore"}]
  /\ want \in [Dumpers -> SUBSET Threads] /\ dumps \in 0..MaxDumps

\* Types, and a dump left alone shows the stacks it was answered with.
StacksHold == TypeOK /\ AloneShowsOwnStacks
=============================================================================
