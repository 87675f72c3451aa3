----------------------------- MODULE ProbeScope -----------------------------
(***************************************************************************)
(* The probe flags of rthas/src/probe.rs and the commands of agent.rs that *)
(* write them: the streaming commands, which enter a ProbeScope and        *)
(* restore it on drop, and on / off / reset (reset is also what `off`      *)
(* without a pattern and `stop` do).  Each client has a thread of its own  *)
(* and nothing locks the flags: every read and every fetch_or / fetch_and  *)
(* of one bit of one probe is a step.                                      *)
(*                                                                         *)
(* A slot is one flag bit of one probe.  A command walks the slots of the  *)
(* probes its pattern matches in registry order, once to save them, once   *)
(* to set them and, if it streams, once more to restore them.              *)
(***************************************************************************)
EXTENDS Naturals, Sequences

CONSTANTS
  Probes,      \* the instrumented functions
  Commands,    \* command invocations, each by a client of its own
  Kind,        \* [Commands -> Kinds]
  Scope        \* [Commands -> Seq(Probes)]: what the pattern matches, in order

\* trace stands for every streaming command; native for `stack --native`.
Streaming == {"trace", "native"}
Kinds == Streaming \union {"on", "off", "reset"}

ASSUME ProbeScopeAssumption ==
  /\ Kind \in [Commands -> Kinds]
  /\ Scope \in [Commands -> Seq(Probes)]
  /\ \A c \in Commands : \A i, j \in DOMAIN Scope[c] :
       Scope[c][i] = Scope[c][j] => i = j

VARIABLES
  enabled,     \* FLAG_ENABLED of each probe
  stack,       \* FLAG_STACK of each probe
  pc,          \* where each command is
  at,          \* how many probes it has walked in this phase
  half,        \* TRUE between its two operations on one probe
  saved,       \* ProbeScope::saved, pairs (was enabled, was capturing)
  count,       \* what on / off report
  before, disturbed, nest, nested, turned   \* history, see below

(* before[c]: the flags when c began; disturbed: the commands whose probes *)
(* another command wrote while they were open; nested: so far every        *)
(* command began while the others were streaming quietly and ended as the  *)
(* youngest, and no on, off or reset ran; nest: while nested, the open     *)
(* streaming commands, oldest first; turned[c]: how many probes c switched.*)
flags == <<enabled, stack>>
hist == <<before, disturbed, nest, nested, turned>>
vars == <<flags, pc, at, half, saved, count, hist>>

Phases == {"idle", "save", "arm", "live", "restore", "set", "done"}

Matches(c) == {Scope[c][i] : i \in DOMAIN Scope[c]}
IsOpen(c) == pc[c] \in {"save", "arm", "live", "restore", "set"}
Cur(c) == Scope[c][at[c] + 1]
\* The capture flag a streaming command sets.
Wants(c) == Kind[c] = "native"

Quiet == [p \in Probes |-> FALSE]

Init ==
  /\ enabled = Quiet /\ stack = Quiet
  /\ pc = [c \in Commands |-> "idle"]
  /\ at = [c \in Commands |-> 0]
  /\ half = [c \in Commands |-> FALSE]
  /\ saved = [c \in Commands |-> <<>>]
  /\ count = [c \in Commands |-> 0]
  /\ before = [c \in Commands |-> [enabled |-> enabled, stack |-> stack]]
  /\ disturbed = {}
  /\ nest = <<>>
  /\ nested = TRUE
  /\ turned = [c \in Commands |-> 0]

-----------------------------------------------------------------------------

\* Each loop starts at the first probe.
FirstAtEnd(c) == Len(Scope[c])
First(c) == 0

Goto(c, phase) ==
  /\ pc' = [pc EXCEPT ![c] = phase]
  /\ at' = [at EXCEPT ![c] = First(c)]
  /\ half' = [half EXCEPT ![c] = FALSE]

\* The second operation on a probe ends with a step to the next one.
Advance(c) ==
  /\ half' = [half EXCEPT ![c] = ~@]
  /\ at' = [at EXCEPT ![c] = IF half[c] THEN @ + 1 ELSE @]
  /\ UNCHANGED pc

Walking(c, phase) == pc[c] = phase /\ at[c] < Len(Scope[c])
Walked(c, phase) == pc[c] = phase /\ at[c] = Len(Scope[c])

\* History: c writes a flag of p, under the feet of whoever else has p open.
Disturb(c, p) ==
  disturbed' = disturbed \union {d \in Commands \ {c} : IsOpen(d) /\ p \in Matches(d)}

\* A streaming command with a matching probe enters its scope; without one
\* it says so and returns.
Begin(c) ==
  /\ pc[c] = "idle" /\ Kind[c] \in Streaming
  /\ Goto(c, IF Scope[c] = <<>> THEN "done" ELSE "save")
  /\ before' = [before EXCEPT ![c] = [enabled |-> enabled, stack |-> stack]]
  /\ IF Scope[c] = <<>> THEN UNCHANGED <<nest, nested>>
     ELSE /\ nest' = Append(nest, c)
          /\ nested' = (nested /\ \A i \in DOMAIN nest : pc[nest[i]] = "live")
  /\ UNCHANGED <<flags, saved, count, disturbed, turned>>

\* What ProbeScope::enter reads of FLAG_ENABLED.
SeenEnabledNever(c) == FALSE
SeenEnabled(c) == enabled[Cur(c)]

\* ProbeScope::enter, first loop: `(*p, p.enabled(), p.capture_stack())`.
Save(c) ==
  /\ Walking(c, "save")
  /\ saved' = [saved EXCEPT ![c] =
       IF half[c] THEN [@ EXCEPT ![Len(@)].stack = stack[Cur(c)]]
                  ELSE Append(@, [enabled |-> SeenEnabled(c), stack |-> FALSE])]
  /\ Advance(c)
  /\ UNCHANGED <<flags, count, hist>>

SaveDone(c) ==
  /\ Walked(c, "save")
  /\ Goto(c, "arm")
  /\ UNCHANGED <<flags, saved, count, hist>>

\* What it sets FLAG_STACK to.
ArmedStackOnly(c) == stack[Cur(c)] \/ Wants(c)
ArmedStack(c) == Wants(c)

\* ProbeScope::enter, second loop: set_enabled(true), then
\* set_capture_stack(capture_stack) on each matching probe.
Arm(c) ==
  /\ Walking(c, "arm")
  /\ IF half[c] THEN stack' = [stack EXCEPT ![Cur(c)] = ArmedStack(c)] /\ UNCHANGED enabled
                ELSE enabled' = [enabled EXCEPT ![Cur(c)] = TRUE] /\ UNCHANGED stack
  /\ Advance(c)
  /\ Disturb(c, Cur(c))
  /\ UNCHANGED <<saved, count, before, nest, nested, turned>>

Stream(c) ==
  /\ Walked(c, "arm")
  /\ Goto(c, "live")
  /\ UNCHANGED <<flags, saved, count, hist>>

\* The command ends, by count, deadline or a failed write, and drops its scope.
Finish(c) ==
  /\ pc[c] = "live"
  /\ Goto(c, "restore")
  /\ nested' = (nested /\ nest # <<>> /\ nest[Len(nest)] = c)
  /\ UNCHANGED <<flags, saved, count, before, disturbed, nest, turned>>

\* What it writes back to FLAG_STACK.
RestoredStackForgotten(c) == stack[Cur(c)]
RestoredStack(c) == saved[c][at[c] + 1].stack

\* ProbeScope::drop: both bits of each saved probe are written back.
Restore(c) ==
  /\ Walking(c, "restore")
  /\ IF half[c] THEN stack' = [stack EXCEPT ![Cur(c)] = RestoredStack(c)] /\ UNCHANGED enabled
     ELSE enabled' = [enabled EXCEPT ![Cur(c)] = saved[c][at[c] + 1].enabled] /\ UNCHANGED stack
  /\ Advance(c)
  /\ Disturb(c, Cur(c))
  /\ UNCHANGED <<saved, count, before, nest, nested, turned>>

Close(c) ==
  /\ Walked(c, "restore")
  /\ Goto(c, "done")
  /\ nest' = IF nested THEN SubSeq(nest, 1, Len(nest) - 1) ELSE nest
  /\ UNCHANGED <<flags, saved, count, before, disturbed, nested, turned>>

\* on, off and reset start; any of them breaks the nesting.
BeginSet(c) ==
  /\ pc[c] = "idle" /\ Kind[c] \notin Streaming
  /\ Goto(c, "set")
  /\ nested' = FALSE
  /\ UNCHANGED <<flags, saved, count, before, disturbed, nest, turned>>

\* Whether set_enabled_matching counts a probe.
ChangesAnyway(c) == TRUE
Changes(c) == enabled[Cur(c)] # (Kind[c] = "on")

\* set_enabled_matching reads the flag, then writes it; disable_all only
\* writes.  Neither touches FLAG_STACK.
Look(c) ==
  /\ Walking(c, "set") /\ ~half[c] /\ Kind[c] # "reset"
  /\ count' = [count EXCEPT ![c] = IF Changes(c) THEN @ + 1 ELSE @]
  /\ Advance(c)
  /\ UNCHANGED <<flags, saved, hist>>

Set(c) ==
  /\ Walking(c, "set") /\ (half[c] \/ Kind[c] = "reset")
  /\ enabled' = [enabled EXCEPT ![Cur(c)] = (Kind[c] = "on")]
  /\ turned' = [turned EXCEPT ![c] = IF enabled' # enabled THEN @ + 1 ELSE @]
  /\ at' = [at EXCEPT ![c] = @ + 1]
  /\ half' = [half EXCEPT ![c] = FALSE]
  /\ Disturb(c, Cur(c))
  /\ UNCHANGED <<stack, pc, saved, count, before, nest, nested>>

SetDone(c) ==
  /\ Walked(c, "set")
  /\ Goto(c, "done")
  /\ UNCHANGED <<flags, saved, count, hist>>

Next == \E c \in Commands :
  \/ Begin(c) \/ Save(c) \/ SaveDone(c) \/ Arm(c) \/ Stream(c)
  \/ Finish(c) \/ Restore(c) \/ Close(c)
  \/ BeginSet(c) \/ Look(c) \/ Set(c) \/ SetDone(c)

Spec == Init /\ [][Next]_vars

-----------------------------------------------------------------------------

\* How far c has walked its scope and how much of it is saved, by phase.
Lengths(c) ==
  /\ at[c] <= Len(Scope[c])
  /\ at[c] = Len(Scope[c]) => ~half[c]
  /\ pc[c] = "idle" => saved[c] = <<>>
  /\ pc[c] \in {"idle", "live", "done"} => at[c] = 0 /\ ~half[c]
  /\ pc[c] = "save" => Len(saved[c]) = IF half[c] THEN at[c] + 1 ELSE at[c]
  /\ pc[c] \in {"arm", "live", "restore"} => Len(saved[c]) = Len(Scope[c])

\* Types, and that a scope is armed and restored in full: as many probes
\* saved as matched, each walk from the first probe to the last.
TypeOK ==
  /\ enabled \in [Probes -> BOOLEAN] /\ stack \in [Probes -> BOOLEAN]
  /\ pc \in [Commands -> Phases]
  /\ at \in [Commands -> Nat]
  /\ \A c \in Commands : Lengths(c)
  /\ half \in [Commands -> BOOLEAN]
  /\ saved \in [Commands -> Seq([enabled : BOOLEAN, stack : BOOLEAN])]
  /\ count \in [Commands -> Nat] /\ turned \in [Commands -> Nat]
  /\ before \in [Commands -> [enabled : [Probes -> BOOLEAN], stack : [Probes -> BOOLEAN]]]
  /\ disturbed \subseteq Commands
  /\ nest \in Seq(Commands)
  /\ nested \in BOOLEAN

\* The probes of c are on and capture native stacks exactly if c asked.
Hot(c) == \A p \in Matches(c) : enabled[p] /\ stack[p] = Wants(c)

\* While a streaming command runs and nobody else writes its probes, they
\* are as it wants them, whatever the commands on other probes do.
UndisturbedIsHot ==
  \A c \in Commands : pc[c] = "live" /\ c \notin disturbed => Hot(c)

\* When such a command has dropped its scope, its probes are as it found
\* them (agent.rs ProbeScope: enter against drop, every interleaving).
UndisturbedRestores ==
  \A c \in Commands : Walked(c, "restore") /\ c \notin disturbed =>
    \A p \in Matches(c) :
      enabled[p] = before[c].enabled[p] /\ stack[p] = before[c].stack[p]

\* Overlapping scopes on the SAME probes are harmless as long as they nest:
\* the youngest always has the probes as it wants them, an outer one gets
\* its own setting back, and once all are gone nothing is left switched.
NestedScopesRestore ==
  nested =>
    /\ nest = <<>> => enabled = Quiet /\ stack = Quiet
    /\ nest # <<>> /\ pc[nest[Len(nest)]] = "live" => Hot(nest[Len(nest)])

\* What on and off report is how many probes they switched, unless another
\* command wrote those probes meanwhile (probe.rs set_enabled_matching).
UndisturbedCounts ==
  \A c \in Commands : pc[c] = "done" /\ Kind[c] \in {"on", "off"} /\ c \notin disturbed =>
    count[c] = turned[c]

Settled == \A c \in Commands : pc[c] \in {"idle", "done"}
OnlyStreams == \A c \in Commands : Kind[c] \in Streaming

\* agent.rs:614-615: "restoring the previous state afterwards so a `trace`
\* never leaves probes hot by accident".
NeverLeftHot ==
  OnlyStreams /\ Settled => enabled = Quiet

\* A stream that no other command disturbs: its probes are hot while it runs
\* and as it found them afterwards.
UndisturbedStreams == UndisturbedIsHot /\ UndisturbedRestores

\* What scopes report and how they nest: types, exact counts of what was
\* switched, and streams that open and close like brackets leave nothing behind.
CountedAndNested == TypeOK /\ UndisturbedCounts /\ NestedScopesRestore
=============================================================================
