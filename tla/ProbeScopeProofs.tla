-------------------------- MODULE ProbeScopeProofs --------------------------
(***************************************************************************)
(* A streaming command whose probes no other command writes meanwhile has  *)
(* them as it wants them while it runs and leaves them as it found them:   *)
(* for any number of probes, of commands, and every interleaving of their  *)
(* flag operations.  And commands that do share probes, as long as their   *)
(* scopes open and close like brackets, leave nothing behind.              *)
(***************************************************************************)
EXTENDS ProbeScope, TLAPS

\* All but the last element of a sequence.
LEMMA Shorter ==
  ASSUME NEW S, NEW s \in Seq(S), Len(s) > 0
  PROVE  /\ Len(s) \in Nat /\ Len(s) - 1 \in Nat
         /\ Len(SubSeq(s, 1, Len(s) - 1)) = Len(s) - 1
         /\ SubSeq(s, 1, Len(s) - 1) \in Seq(S)
         /\ \A k \in 1 .. Len(s) - 1 : SubSeq(s, 1, Len(s) - 1)[k] = s[k]
<1>1. Len(s) \in Nat /\ Len(s) - 1 \in Nat
  OBVIOUS
<1> DEFINE n == Len(s) - 1
<1>2. n \in Nat /\ n <= Len(s)
  BY <1>1
<1> HIDE DEF n
<1>3. /\ Len(SubSeq(s, 1, n)) = n
      /\ \A k \in 1 .. n : SubSeq(s, 1, n)[k] = s[k]
  BY <1>2
<1>4. SubSeq(s, 1, n) \in Seq(S)
  BY <1>2
<1> QED BY <1>1, <1>3, <1>4 DEF n

USE ProbeScopeAssumption

\* The walk of c has passed the first, the second operation on its i-th probe.
PastFirst(c, i) == i <= at[c] \/ (i = at[c] + 1 /\ half[c])
PastSecond(c, i) == i <= at[c]

WasEnabled(c, i) == before[c].enabled[Scope[c][i]]
WasStack(c, i) == before[c].stack[Scope[c][i]]
NowEnabled(c, i) == enabled[Scope[c][i]]
NowStack(c, i) == stack[Scope[c][i]]

SavedType == [Commands -> Seq([enabled : BOOLEAN, stack : BOOLEAN])]
BeforeType == [Commands -> [enabled : [Probes -> BOOLEAN], stack : [Probes -> BOOLEAN]]]

ScopeType ==
  /\ enabled \in [Probes -> BOOLEAN] /\ stack \in [Probes -> BOOLEAN]
  /\ pc \in [Commands -> Phases]
  /\ at \in [Commands -> Nat]
  /\ half \in [Commands -> BOOLEAN]
  /\ saved \in SavedType
  /\ before \in BeforeType
  /\ \A c \in Commands : Lengths(c)

\* What an undisturbed command knows of the i-th probe of its scope.
Slot(c, i) ==
  /\ pc[c] = "save" =>
       /\ NowEnabled(c, i) = WasEnabled(c, i) /\ NowStack(c, i) = WasStack(c, i)
       /\ PastFirst(c, i) => saved[c][i].enabled = WasEnabled(c, i)
       /\ PastSecond(c, i) => saved[c][i].stack = WasStack(c, i)
  /\ pc[c] \in {"arm", "live", "restore"} =>
       saved[c][i].enabled = WasEnabled(c, i) /\ saved[c][i].stack = WasStack(c, i)
  /\ pc[c] = "arm" =>
       /\ IF PastFirst(c, i) THEN NowEnabled(c, i) = TRUE ELSE NowEnabled(c, i) = WasEnabled(c, i)
       /\ IF PastSecond(c, i) THEN NowStack(c, i) = Wants(c) ELSE NowStack(c, i) = WasStack(c, i)
  /\ pc[c] = "live" => NowEnabled(c, i) = TRUE /\ NowStack(c, i) = Wants(c)
  /\ pc[c] = "restore" =>
       /\ IF PastFirst(c, i) THEN NowEnabled(c, i) = WasEnabled(c, i) ELSE NowEnabled(c, i) = TRUE
       /\ IF PastSecond(c, i) THEN NowStack(c, i) = WasStack(c, i) ELSE NowStack(c, i) = Wants(c)

ScopeInv ==
  /\ ScopeType
  /\ \A c \in Commands \ disturbed : \A i \in 1 .. Len(Scope[c]) : Slot(c, i)

-----------------------------------------------------------------------------
(* Types.                                                                  *)

LEMMA ElementOf ==
  ASSUME NEW S, NEW s \in Seq(S), NEW i \in 1 .. Len(s)
  PROVE  s[i] \in S
  OBVIOUS

\* The scope of c is a sequence of probes; its current one is one of them.
LEMMA CurInScope ==
  ASSUME ScopeType, NEW c \in Commands, at[c] < Len(Scope[c])
  PROVE  /\ Len(Scope[c]) \in Nat /\ at[c] + 1 \in 1 .. Len(Scope[c])
         /\ Cur(c) \in Probes /\ Cur(c) = Scope[c][at[c] + 1]
  BY DEF ScopeType, Lengths, Cur

LEMMA InitType == Init => ScopeType
<1> SUFFICES ASSUME Init PROVE ScopeType
  OBVIOUS
<1>1. enabled \in [Probes -> BOOLEAN] /\ stack \in [Probes -> BOOLEAN]
  BY DEF Init, Quiet
<1>2. before \in BeforeType
  BY <1>1 DEF Init, BeforeType
<1>3. saved \in SavedType
  BY DEF Init, SavedType
<1>4. \A c \in Commands : Lengths(c)
  BY DEF Init, Lengths
<1>5. QED BY <1>1, <1>2, <1>3, <1>4 DEF Init, ScopeType, Phases

\* A step that moves only c, and by Goto or Advance, keeps the others' types.
LEMMA GotoType ==
  ASSUME ScopeType, NEW c \in Commands, NEW phase \in Phases, Goto(c, phase)
  PROVE  /\ pc' \in [Commands -> Phases] /\ at' \in [Commands -> Nat]
         /\ half' \in [Commands -> BOOLEAN]
         /\ pc'[c] = phase /\ at'[c] = 0 /\ half'[c] = FALSE
         /\ \A d \in Commands \ {c} :
              pc'[d] = pc[d] /\ at'[d] = at[d] /\ half'[d] = half[d]
  BY DEF ScopeType, Goto, First

LEMMA AdvanceType ==
  ASSUME ScopeType, NEW c \in Commands, Advance(c)
  PROVE  /\ pc' \in [Commands -> Phases] /\ at' \in [Commands -> Nat]
         /\ half' \in [Commands -> BOOLEAN]
         /\ pc' = pc /\ half'[c] = ~half[c]
         /\ half[c] => at'[c] = at[c] + 1
         /\ ~half[c] => at'[c] = at[c]
         /\ \A d \in Commands \ {c} :
              pc'[d] = pc[d] /\ at'[d] = at[d] /\ half'[d] = half[d]
  BY DEF ScopeType, Advance

LEMMA TypeFrom ==
  ASSUME ScopeType, NEW c \in Commands,
         enabled' \in [Probes -> BOOLEAN], stack' \in [Probes -> BOOLEAN],
         pc' \in [Commands -> Phases], at' \in [Commands -> Nat],
         half' \in [Commands -> BOOLEAN], saved' \in SavedType, before' \in BeforeType,
         Lengths(c)',
         \A d \in Commands \ {c} : /\ pc'[d] = pc[d] /\ at'[d] = at[d]
                                  /\ half'[d] = half[d] /\ saved'[d] = saved[d]
  PROVE  ScopeType'
<1>1. \A d \in Commands \ {c} : Lengths(d)'
  BY DEF ScopeType, Lengths
<1>2. QED BY <1>1 DEF ScopeType

\* Steps that only change phase.
LEMMA PhaseType ==
  ASSUME ScopeType, NEW c \in Commands, UNCHANGED <<enabled, stack, saved>>,
         \/ Begin(c) \/ SaveDone(c) \/ Stream(c) \/ Finish(c) \/ Close(c)
         \/ BeginSet(c) \/ SetDone(c)
  PROVE  ScopeType'
<1>1. before' \in BeforeType
  <2>1. CASE Begin(c)
    <3>1. [enabled |-> enabled, stack |-> stack] \in [enabled : [Probes -> BOOLEAN], stack : [Probes -> BOOLEAN]]
      BY DEF ScopeType
    <3>2. before' = [before EXCEPT ![c] = [enabled |-> enabled, stack |-> stack]]
      BY <2>1 DEF Begin
    <3>3. before \in BeforeType
      BY DEF ScopeType
    <3>4. QED BY <3>1, <3>2, <3>3, Zenon DEF BeforeType
  <2>2. CASE ~Begin(c)
    BY <2>2 DEF SaveDone, Stream, Finish, Close, BeginSet, SetDone, hist, ScopeType
  <2>3. QED BY <2>1, <2>2
<1>2. PICK phase \in Phases : Goto(c, phase)
  BY DEF Begin, SaveDone, Stream, Finish, Close, BeginSet, SetDone, Phases
<1>3. /\ Scope[c] \in Seq(Probes) /\ Len(Scope[c]) \in Nat /\ saved \in SavedType
      /\ Lengths(c) /\ at[c] \in Nat /\ half[c] \in BOOLEAN
  BY DEF ScopeType
<1>4. \/ phase = "done" /\ pc'[c] = "done"
      \/ phase \in {"save", "set"} /\ pc[c] = "idle"
      \/ phase = "arm" /\ pc[c] = "save" /\ at[c] = Len(Scope[c])
      \/ phase = "live" /\ pc[c] = "arm"
      \/ phase = "restore" /\ pc[c] = "live"
  BY <1>2, GotoType
     DEF Begin, SaveDone, Stream, Finish, Close, BeginSet, SetDone, Walked, Goto, First, ScopeType
<1>5. /\ pc'[c] = phase /\ at'[c] = 0 /\ half'[c] = FALSE
      /\ saved'[c] = saved[c]
      /\ \A d \in Commands \ {c} :
           pc'[d] = pc[d] /\ at'[d] = at[d] /\ half'[d] = half[d] /\ saved'[d] = saved[d]
  BY <1>2, GotoType
<1>6. phase \in {"arm", "live", "restore"} => Len(saved[c]) = Len(Scope[c])
  BY <1>3, <1>4, <1>5 DEF Lengths
<1>7. phase = "save" => Len(saved[c]) = 0
  BY <1>3, <1>4, <1>5 DEF Lengths
<1>8. phase # "idle"
  BY <1>4, <1>5
<1>9. Lengths(c)'
  BY <1>3, <1>5, <1>6, <1>7, <1>8 DEF Lengths
<1>10. QED BY <1>1, <1>2, <1>5, <1>9, GotoType, TypeFrom DEF ScopeType

LEMMA SaveType ==
  ASSUME ScopeType, NEW c \in Commands, Save(c)
  PROVE  ScopeType'
<1>1. /\ pc[c] = "save" /\ at[c] < Len(Scope[c]) /\ Advance(c)
      /\ UNCHANGED <<enabled, stack, before>>
  BY DEF Save, Walking, flags, hist
<1>2. /\ Cur(c) \in Probes /\ Len(Scope[c]) \in Nat /\ at[c] \in Nat /\ half[c] \in BOOLEAN
      /\ enabled[Cur(c)] \in BOOLEAN /\ stack[Cur(c)] \in BOOLEAN
      /\ saved[c] \in Seq([enabled : BOOLEAN, stack : BOOLEAN])
      /\ Len(saved[c]) = IF half[c] THEN at[c] + 1 ELSE at[c]
  BY <1>1, CurInScope DEF ScopeType, Lengths, SavedType
<1> DEFINE new == IF half[c] THEN [saved[c] EXCEPT ![Len(saved[c])].stack = stack[Cur(c)]]
                  ELSE Append(saved[c], [enabled |-> SeenEnabled(c), stack |-> FALSE])
<1>3. /\ new \in Seq([enabled : BOOLEAN, stack : BOOLEAN])
      /\ Len(new) = at[c] + 1
  <2>1. CASE half[c]
    <3> DEFINE n == Len(saved[c])
              old == saved[c][n]
    <3>0. n = at[c] + 1 /\ n \in 1 .. Len(saved[c])
      BY <1>2, <2>1
    <3>1. old \in [enabled : BOOLEAN, stack : BOOLEAN]
      BY <1>2, <3>0, ElementOf
    <3>2. [old EXCEPT !.stack = stack[Cur(c)]] \in [enabled : BOOLEAN, stack : BOOLEAN]
      BY <1>2, <3>1
    <3>3. new = [saved[c] EXCEPT ![n] = [old EXCEPT !.stack = stack[Cur(c)]]]
      BY <2>1
    <3> HIDE DEF old, new
    <3>4. QED BY <1>2, <2>1, <3>0, <3>1, <3>2, <3>3
  <2>2. CASE ~half[c]
    BY <1>2, <2>2 DEF SeenEnabled
  <2>3. QED BY <2>1, <2>2
<1>4. saved' = [saved EXCEPT ![c] = new]
  BY DEF Save
<1>5. /\ saved' \in SavedType /\ saved'[c] = new
      /\ \A d \in Commands \ {c} : saved'[d] = saved[d]
  <2> HIDE DEF new
  <2>1. QED BY <1>3, <1>4 DEF ScopeType, SavedType
<1>6. Lengths(c)'
  BY <1>1, <1>2, <1>3, <1>5, AdvanceType DEF Lengths
<1>7. QED BY <1>1, <1>5, <1>6, AdvanceType, TypeFrom DEF ScopeType

LEMMA FlagType ==
  ASSUME ScopeType, NEW c \in Commands, Arm(c) \/ Restore(c)
  PROVE  ScopeType'
<1>1. /\ pc[c] \in {"arm", "restore"} /\ at[c] < Len(Scope[c]) /\ Advance(c)
      /\ UNCHANGED <<saved, before>>
  BY DEF Arm, Restore, Walking
<1>2. /\ Cur(c) \in Probes /\ Len(Scope[c]) \in Nat /\ at[c] \in Nat /\ half[c] \in BOOLEAN
      /\ at[c] + 1 \in 1 .. Len(Scope[c])
      /\ Len(saved[c]) = Len(Scope[c])
      /\ saved[c] \in Seq([enabled : BOOLEAN, stack : BOOLEAN])
  BY <1>1, CurInScope DEF ScopeType, Lengths, SavedType
<1>3. saved[c][at[c] + 1].enabled \in BOOLEAN /\ saved[c][at[c] + 1].stack \in BOOLEAN
  <2>1. at[c] + 1 \in 1 .. Len(saved[c])
    BY <1>2
  <2>2. saved[c][at[c] + 1] \in [enabled : BOOLEAN, stack : BOOLEAN]
    BY <1>2, <2>1, ElementOf
  <2>3. QED BY <2>2
<1>4. enabled' \in [Probes -> BOOLEAN]
  BY <1>2, <1>3 DEF Arm, Restore, ScopeType
<1>5. stack' \in [Probes -> BOOLEAN]
  BY <1>2, <1>3 DEF Arm, Restore, ScopeType, RestoredStack, ArmedStack, Wants
<1>6. Lengths(c)'
  BY <1>1, <1>2, AdvanceType DEF Lengths, ScopeType
<1>7. QED BY <1>1, <1>4, <1>5, <1>6, AdvanceType, TypeFrom DEF ScopeType

\* Look and Set write no scope of their own.
LEMMA SetType ==
  ASSUME ScopeType, NEW c \in Commands, Look(c) \/ Set(c)
  PROVE  ScopeType'
<1>1. /\ pc[c] = "set" /\ at[c] < Len(Scope[c]) /\ pc' = pc
      /\ UNCHANGED <<stack, saved, before>>
      /\ Len(Scope[c]) \in Nat /\ at[c] \in Nat /\ half[c] \in BOOLEAN /\ Cur(c) \in Probes
  <2>1. pc[c] = "set" /\ at[c] < Len(Scope[c]) /\ pc' = pc /\ UNCHANGED <<stack, saved, before>>
    BY DEF Look, Set, Walking, Advance, flags, hist
  <2>2. QED BY <2>1, CurInScope DEF ScopeType
<1>2. enabled' \in [Probes -> BOOLEAN]
  <2>1. CASE Look(c)
    BY <2>1 DEF Look, flags, ScopeType
  <2>2. CASE Set(c)
    <3> DEFINE on == Kind[c] = "on"
    <3>1. on \in BOOLEAN
      OBVIOUS
    <3>2. enabled' = [enabled EXCEPT ![Cur(c)] = on]
      BY <2>2 DEF Set
    <3> HIDE DEF on
    <3>3. QED BY <3>1, <3>2 DEF ScopeType
  <2>3. QED BY <2>1, <2>2
<1>3. /\ at' \in [Commands -> Nat] /\ half' \in [Commands -> BOOLEAN]
      /\ at'[c] \in {at[c], at[c] + 1}
      /\ at'[c] = at[c] + 1 => ~half'[c]
      /\ \A d \in Commands \ {c} : at'[d] = at[d] /\ half'[d] = half[d]
  <2>1. CASE Look(c)
    <3>1. Advance(c) /\ ~half[c]
      BY <2>1 DEF Look
    <3>2. QED BY <1>1, <3>1, AdvanceType
  <2>2. CASE Set(c)
    <3>1. at' = [at EXCEPT ![c] = at[c] + 1] /\ half' = [half EXCEPT ![c] = FALSE]
      BY <2>2 DEF Set
    <3>2. QED BY <1>1, <3>1 DEF ScopeType
  <2>3. QED BY <2>1, <2>2
<1>4. Lengths(c)'
  BY <1>1, <1>3 DEF Lengths, ScopeType
<1>5. QED BY <1>1, <1>2, <1>3, <1>4, TypeFrom DEF ScopeType

-----------------------------------------------------------------------------
(* The slots of a command nobody disturbs.                                 *)

\* A step of c leaves the slots of every other undisturbed command alone.
LEMMA OthersKeep ==
  ASSUME ScopeInv, NEW c \in Commands, NEW d \in Commands \ {c}, d \notin disturbed',
         pc'[d] = pc[d], at'[d] = at[d], half'[d] = half[d], saved'[d] = saved[d],
         before'[d] = before[d], disturbed \subseteq disturbed',
         NEW p, \A q \in Probes \ {p} : enabled'[q] = enabled[q] /\ stack'[q] = stack[q],
         IsOpen(d) /\ p \in Matches(d) => UNCHANGED flags,
         NEW i \in 1 .. Len(Scope[d])
  PROVE  Slot(d, i)'
<1>1. Slot(d, i)
  BY DEF ScopeInv
<1>2. /\ Scope[d] \in Seq(Probes) /\ Scope[d][i] \in Probes /\ Scope[d][i] \in Matches(d)
  BY ElementOf DEF Matches
<1>3. CASE ~IsOpen(d)
  BY <1>3 DEF IsOpen, Slot
<1>4. CASE IsOpen(d)
  <2>1. enabled'[Scope[d][i]] = enabled[Scope[d][i]] /\ stack'[Scope[d][i]] = stack[Scope[d][i]]
    BY <1>2, <1>4 DEF flags
  <2>2. QED BY <1>1, <2>1
            DEF Slot, PastFirst, PastSecond, NowEnabled, NowStack, WasEnabled, WasStack
<1>5. QED BY <1>3, <1>4

LEMMA AdvancePast ==
  ASSUME ScopeType, NEW c \in Commands, Advance(c), NEW i \in Nat
  PROVE  /\ half[c] => /\ PastFirst(c, i)' <=> PastFirst(c, i)
                       /\ PastSecond(c, i)' <=> (PastSecond(c, i) \/ i = at[c] + 1)
         /\ ~half[c] => /\ PastFirst(c, i)' <=> (PastFirst(c, i) \/ i = at[c] + 1)
                        /\ PastSecond(c, i)' <=> PastSecond(c, i)
<1>1. at[c] \in Nat /\ half[c] \in BOOLEAN /\ half'[c] = ~half[c]
  BY AdvanceType DEF ScopeType
<1>2. CASE half[c]
  <2>1. at'[c] = at[c] + 1 /\ half'[c] = FALSE
    BY <1>1, <1>2, AdvanceType
  <2>2. i <= at'[c] <=> (i <= at[c] \/ i = at[c] + 1)
    BY <1>1, <2>1
  <2>3. QED BY <1>2, <2>1, <2>2 DEF PastFirst, PastSecond
<1>3. CASE ~half[c]
  <2>1. at'[c] = at[c] /\ half'[c] = TRUE
    BY <1>1, <1>3, AdvanceType
  <2>2. QED BY <1>3, <2>1 DEF PastFirst, PastSecond
<1>4. QED BY <1>1, <1>2, <1>3

\* The own slots of c, by kind of step.
LEMMA BeginSlot ==
  ASSUME ScopeType, NEW c \in Commands, Begin(c), NEW i \in 1 .. Len(Scope[c])
  PROVE  Slot(c, i)'
<1>1. /\ pc'[c] \in {"save", "done"} /\ at'[c] = 0 /\ half'[c] = FALSE
      /\ before'[c] = [enabled |-> enabled, stack |-> stack]
      /\ enabled' = enabled /\ stack' = stack
  BY DEF Begin, Goto, First, flags, ScopeType, BeforeType
<1>2. QED BY <1>1
          DEF Slot, PastFirst, PastSecond, NowEnabled, NowStack, WasEnabled, WasStack

LEMMA SaveSlot ==
  ASSUME ScopeType, NEW c \in Commands, Save(c), NEW i \in 1 .. Len(Scope[c]), Slot(c, i)
  PROVE  Slot(c, i)'
<1>1. /\ pc[c] = "save" /\ at[c] < Len(Scope[c]) /\ Advance(c)
      /\ enabled' = enabled /\ stack' = stack /\ before' = before /\ Slot(c, i)
      /\ ScopeType
  BY DEF Save, Walking, flags, hist
<1>2. /\ at[c] \in Nat /\ half[c] \in BOOLEAN /\ Cur(c) = Scope[c][at[c] + 1]
      /\ saved[c] \in Seq([enabled : BOOLEAN, stack : BOOLEAN])
      /\ Len(saved[c]) = IF half[c] THEN at[c] + 1 ELSE at[c]
      /\ pc'[c] = "save"
      /\ half'[c] = ~half[c] /\ at'[c] = IF half[c] THEN at[c] + 1 ELSE at[c]
      /\ saved \in SavedType
  BY <1>1, AdvanceType, CurInScope DEF ScopeType, Lengths, SavedType
<1>3. CASE half[c]
  <2>1. saved'[c] = [saved[c] EXCEPT ![at[c] + 1].stack = stack[Cur(c)]]
    BY <1>2, <1>3 DEF Save, SavedType
  <2>2. PastFirst(c, i)' => PastFirst(c, i) /\ saved'[c][i].enabled = saved[c][i].enabled
    <3>1. at[c] + 1 \in 1 .. Len(saved[c])
      BY <1>2, <1>3
    <3>2. saved[c][at[c] + 1] \in [enabled : BOOLEAN, stack : BOOLEAN]
      BY <1>2, <3>1, ElementOf
    <3>3. saved'[c][i].enabled = saved[c][i].enabled
      BY <1>2, <2>1, <3>1, <3>2
    <3>4. QED BY <1>1, <1>3, <3>3, AdvancePast
  <2>3. PastSecond(c, i)' =>
          IF i = at[c] + 1 THEN saved'[c][i].stack = stack[Scope[c][i]]
          ELSE PastSecond(c, i) /\ saved'[c][i] = saved[c][i]
    BY <1>2, <1>3, <2>1 DEF PastSecond
  <2>4. QED BY <1>1, <1>2, <2>2, <2>3
            DEF Slot, NowEnabled, NowStack, WasEnabled, WasStack
<1>4. CASE ~half[c]
  <2>1. saved'[c] = Append(saved[c], [enabled |-> enabled[Cur(c)], stack |-> FALSE])
    BY <1>2, <1>4 DEF Save, SeenEnabled, SavedType
  <2>2. PastFirst(c, i)' =>
          IF i = at[c] + 1 THEN saved'[c][i].enabled = enabled[Scope[c][i]]
          ELSE PastFirst(c, i) /\ saved'[c][i] = saved[c][i]
    BY <1>2, <1>4, <2>1 DEF PastFirst
  <2>3. PastSecond(c, i)' => PastSecond(c, i) /\ saved'[c][i] = saved[c][i]
    BY <1>2, <1>4, <2>1 DEF PastSecond
  <2>4. QED BY <1>1, <1>2, <2>2, <2>3
            DEF Slot, NowEnabled, NowStack, WasEnabled, WasStack
<1>5. QED BY <1>2, <1>3, <1>4

\* Only the current probe of the walk is the one written.
LEMMA OnlyCurrent ==
  ASSUME ScopeType, NEW c \in Commands, at[c] < Len(Scope[c]), NEW i \in 1 .. Len(Scope[c])
  PROVE  Scope[c][i] \in Probes /\ (Scope[c][i] = Cur(c) <=> i = at[c] + 1)
<1>1. Scope[c] \in Seq(Probes) /\ at[c] + 1 \in 1 .. Len(Scope[c]) /\ Cur(c) = Scope[c][at[c] + 1]
  BY CurInScope
<1>2. Scope[c][i] \in Probes
  BY <1>1, ElementOf
<1>3. QED BY <1>1, <1>2

LEMMA ArmSlot ==
  ASSUME ScopeType, NEW c \in Commands, Arm(c), NEW i \in 1 .. Len(Scope[c]), Slot(c, i)
  PROVE  Slot(c, i)'
<1>1. /\ pc[c] = "arm" /\ at[c] < Len(Scope[c]) /\ Advance(c)
      /\ saved' = saved /\ before' = before /\ Slot(c, i) /\ ScopeType
  BY DEF Arm, Walking
<1>2. /\ at[c] \in Nat /\ half[c] \in BOOLEAN /\ Cur(c) \in Probes
      /\ pc'[c] = "arm"
      /\ half'[c] = ~half[c] /\ at'[c] = IF half[c] THEN at[c] + 1 ELSE at[c]
      /\ Scope[c][i] \in Probes /\ (Scope[c][i] = Cur(c) <=> i = at[c] + 1)
      /\ enabled \in [Probes -> BOOLEAN] /\ stack \in [Probes -> BOOLEAN]
  BY <1>1, AdvanceType, CurInScope, OnlyCurrent DEF ScopeType
<1>3. CASE half[c]
  <2>1. /\ enabled' = enabled
        /\ NowStack(c, i)' = IF i = at[c] + 1 THEN Wants(c) ELSE NowStack(c, i)
    BY <1>2, <1>3 DEF Arm, ArmedStack, NowStack
  <2>2. /\ PastFirst(c, i)' <=> PastFirst(c, i)
        /\ PastSecond(c, i)' <=> (PastSecond(c, i) \/ i = at[c] + 1)
    BY <1>1, <1>3, AdvancePast
  <2>3. QED BY <1>1, <1>2, <2>1, <2>2 DEF Slot, NowEnabled, WasEnabled, WasStack
<1>4. CASE ~half[c]
  <2>1. /\ stack' = stack
        /\ NowEnabled(c, i)' = IF i = at[c] + 1 THEN TRUE ELSE NowEnabled(c, i)
    BY <1>2, <1>4 DEF Arm, NowEnabled
  <2>2. /\ PastFirst(c, i)' <=> (PastFirst(c, i) \/ i = at[c] + 1)
        /\ PastSecond(c, i)' <=> PastSecond(c, i)
    BY <1>1, <1>4, AdvancePast
  <2>3. QED BY <1>1, <1>2, <2>1, <2>2 DEF Slot, NowStack, WasEnabled, WasStack
<1>5. QED BY <1>2, <1>3, <1>4

LEMMA RestoreSlot ==
  ASSUME ScopeType, NEW c \in Commands, Restore(c), NEW i \in 1 .. Len(Scope[c]), Slot(c, i)
  PROVE  Slot(c, i)'
<1>1. /\ pc[c] = "restore" /\ at[c] < Len(Scope[c]) /\ Advance(c)
      /\ saved' = saved /\ before' = before /\ Slot(c, i) /\ ScopeType
  BY DEF Restore, Walking
<1>2. /\ at[c] \in Nat /\ half[c] \in BOOLEAN /\ Cur(c) \in Probes
      /\ pc'[c] = "restore"
      /\ half'[c] = ~half[c] /\ at'[c] = IF half[c] THEN at[c] + 1 ELSE at[c]
      /\ Scope[c][i] \in Probes /\ (Scope[c][i] = Cur(c) <=> i = at[c] + 1)
      /\ enabled \in [Probes -> BOOLEAN] /\ stack \in [Probes -> BOOLEAN]
  BY <1>1, AdvanceType, CurInScope, OnlyCurrent DEF ScopeType
<1>3. saved[c][i].enabled = WasEnabled(c, i) /\ saved[c][i].stack = WasStack(c, i)
  BY <1>1 DEF Slot
<1>4. CASE half[c]
  <2>1. /\ enabled' = enabled
        /\ NowStack(c, i)' = IF i = at[c] + 1 THEN WasStack(c, i) ELSE NowStack(c, i)
    BY <1>2, <1>3, <1>4 DEF Restore, RestoredStack, NowStack
  <2>2. /\ PastFirst(c, i)' <=> PastFirst(c, i)
        /\ PastSecond(c, i)' <=> (PastSecond(c, i) \/ i = at[c] + 1)
    BY <1>1, <1>4, AdvancePast
  <2>3. QED BY <1>1, <1>2, <2>1, <2>2 DEF Slot, NowEnabled, WasEnabled, WasStack
<1>5. CASE ~half[c]
  <2>1. /\ stack' = stack
        /\ NowEnabled(c, i)' = IF i = at[c] + 1 THEN WasEnabled(c, i) ELSE NowEnabled(c, i)
    BY <1>2, <1>3, <1>5 DEF Restore, NowEnabled
  <2>2. /\ PastFirst(c, i)' <=> (PastFirst(c, i) \/ i = at[c] + 1)
        /\ PastSecond(c, i)' <=> PastSecond(c, i)
    BY <1>1, <1>5, AdvancePast
  <2>3. QED BY <1>1, <1>2, <2>1, <2>2 DEF Slot, NowStack, WasEnabled, WasStack
<1>6. QED BY <1>2, <1>4, <1>5

LEMMA PhaseSlot ==
  ASSUME ScopeType, NEW c \in Commands, NEW i \in 1 .. Len(Scope[c]), Slot(c, i),
         SaveDone(c) \/ Stream(c) \/ Finish(c) \/ Close(c)
  PROVE  Slot(c, i)'
<1>1. /\ enabled' = enabled /\ stack' = stack /\ saved' = saved /\ before' = before
      /\ Slot(c, i) /\ Lengths(c) /\ at[c] \in Nat /\ half[c] \in BOOLEAN /\ ScopeType
      /\ Len(Scope[c]) \in Nat
  BY DEF SaveDone, Stream, Finish, Close, flags, hist, ScopeType
<1>2. PICK phase \in Phases : Goto(c, phase)
  BY DEF SaveDone, Stream, Finish, Close, Phases
<1>3. pc'[c] = phase /\ at'[c] = 0 /\ half'[c] = FALSE
  BY <1>1, <1>2, GotoType
<1>4. ~PastFirst(c, i)' /\ ~PastSecond(c, i)'
  BY <1>3 DEF PastFirst, PastSecond
<1>5. at[c] = Len(Scope[c]) => PastFirst(c, i) /\ PastSecond(c, i)
  BY <1>1 DEF PastFirst, PastSecond
<1>6. \/ pc'[c] = "done"
      \/ pc'[c] = "arm" /\ pc[c] = "save" /\ at[c] = Len(Scope[c])
      \/ pc'[c] = "live" /\ pc[c] = "arm" /\ at[c] = Len(Scope[c])
      \/ pc'[c] = "restore" /\ pc[c] = "live"
  BY <1>1 DEF SaveDone, Stream, Finish, Close, Walked, Goto, ScopeType
<1>7. QED BY <1>1, <1>4, <1>5, <1>6
          DEF Slot, NowEnabled, NowStack, WasEnabled, WasStack

\* The slots of a command that does not stream are vacuous.
LEMMA SetSlot ==
  ASSUME ScopeType, NEW c \in Commands, NEW i \in 1 .. Len(Scope[c]),
         BeginSet(c) \/ Look(c) \/ Set(c) \/ SetDone(c)
  PROVE  Slot(c, i)'
<1>1. pc'[c] \in {"set", "done"}
  BY DEF BeginSet, Look, Set, SetDone, Walking, Walked, Goto, Advance, ScopeType
<1>2. QED BY <1>1 DEF Slot

-----------------------------------------------------------------------------

\* What a step of c does to the others.
LEMMA Footprint ==
  ASSUME ScopeType, NEW c \in Commands, NEW d \in Commands \ {c},
         \/ Begin(c) \/ Save(c) \/ SaveDone(c) \/ Arm(c) \/ Stream(c)
         \/ Finish(c) \/ Restore(c) \/ Close(c)
         \/ BeginSet(c) \/ Look(c) \/ Set(c) \/ SetDone(c)
  PROVE  /\ pc'[d] = pc[d] /\ at'[d] = at[d] /\ half'[d] = half[d]
         /\ saved'[d] = saved[d] /\ before'[d] = before[d]
         /\ \A q \in Probes \ {Cur(c)} : enabled'[q] = enabled[q] /\ stack'[q] = stack[q]
         /\ disturbed \subseteq disturbed'
         /\ d \notin disturbed' /\ IsOpen(d) /\ Cur(c) \in Matches(d) => UNCHANGED flags
<1>1. /\ enabled \in [Probes -> BOOLEAN] /\ stack \in [Probes -> BOOLEAN]
      /\ pc \in [Commands -> Phases] /\ at \in [Commands -> Nat]
      /\ half \in [Commands -> BOOLEAN] /\ saved \in SavedType /\ before \in BeforeType
  BY DEF ScopeType
<1>2. CASE Begin(c)
  BY <1>1, <1>2 DEF Begin, Goto, flags, BeforeType
<1>3. CASE Save(c)
  BY <1>1, <1>3 DEF Save, Advance, flags, hist, SavedType
<1>4. CASE SaveDone(c) \/ Stream(c) \/ Finish(c) \/ Close(c) \/ BeginSet(c) \/ SetDone(c)
  BY <1>1, <1>4 DEF SaveDone, Stream, Finish, Close, BeginSet, SetDone, Goto, flags, hist
<1>5. CASE Arm(c)
  BY <1>1, <1>5 DEF Arm, Advance, Disturb, flags
<1>6. CASE Restore(c)
  BY <1>1, <1>6 DEF Restore, Advance, Disturb, flags
<1>7. CASE Look(c)
  BY <1>1, <1>7 DEF Look, Advance, flags, hist
<1>8. CASE Set(c)
  BY <1>1, <1>8 DEF Set, Disturb, flags
<1>9. QED BY <1>2, <1>3, <1>4, <1>5, <1>6, <1>7, <1>8

LEMMA ScopeInvInit == Init => ScopeInv
<1> SUFFICES ASSUME Init PROVE ScopeInv
  OBVIOUS
<1>1. ScopeType
  BY InitType
<1>2. \A c \in Commands : pc[c] = "idle"
  BY DEF Init
<1>3. QED BY <1>1, <1>2 DEF ScopeInv, Slot

LEMMA ScopeInvNext == ScopeInv /\ [Next]_vars => ScopeInv'
<1> SUFFICES ASSUME ScopeInv, [Next]_vars PROVE ScopeInv'
  OBVIOUS
<1>1. CASE UNCHANGED vars
  BY <1>1 DEF vars, flags, hist, ScopeInv, ScopeType, Lengths, SavedType, BeforeType,
     Slot, PastFirst, PastSecond, NowEnabled, NowStack, WasEnabled, WasStack
<1>2. ASSUME NEW c \in Commands,
             \/ Begin(c) \/ Save(c) \/ SaveDone(c) \/ Arm(c) \/ Stream(c)
             \/ Finish(c) \/ Restore(c) \/ Close(c)
             \/ BeginSet(c) \/ Look(c) \/ Set(c) \/ SetDone(c)
      PROVE  ScopeInv'
  <2>1. ScopeType'
    <3>1. CASE Save(c) \/ Arm(c) \/ Restore(c) \/ Look(c) \/ Set(c)
      BY <3>1, SaveType, FlagType, SetType DEF ScopeInv
    <3>2. CASE ~(Save(c) \/ Arm(c) \/ Restore(c) \/ Look(c) \/ Set(c))
      <4>1. UNCHANGED <<enabled, stack, saved>>
        BY <1>2, <3>2
           DEF Begin, SaveDone, Stream, Finish, Close, BeginSet, SetDone, flags
      <4>2. QED BY <1>2, <3>2, <4>1, PhaseType DEF ScopeInv
    <3>3. QED BY <3>1, <3>2
  <2>2. ASSUME NEW d \in Commands \ {c}, d \notin disturbed', NEW i \in 1 .. Len(Scope[d])
        PROVE  Slot(d, i)'
    <3>1. ScopeType
      BY DEF ScopeInv
    <3>2. QED BY <1>2, <2>2, <3>1, Footprint, OthersKeep
  <2>3. ASSUME c \notin disturbed', NEW i \in 1 .. Len(Scope[c])
        PROVE  Slot(c, i)'
    <3>1. c \notin disturbed
      BY <1>2, <2>3 DEF Begin, Save, SaveDone, Arm, Stream, Finish, Restore, Close,
         BeginSet, Look, Set, SetDone, hist, Disturb
    <3>2. ScopeType /\ Slot(c, i)
      BY <3>1 DEF ScopeInv
    <3>3. QED BY <1>2, <3>2, BeginSlot, SaveSlot, ArmSlot, RestoreSlot, PhaseSlot, SetSlot
  <2>4. QED BY <2>1, <2>2, <2>3 DEF ScopeInv
<1>3. QED BY <1>1, <1>2 DEF Next

THEOREM ScopeInvariant == Spec => []ScopeInv
BY ScopeInvInit, ScopeInvNext, PTL DEF Spec

\* While a streaming command runs and nobody else writes its probes, they are
\* as it wants them (ProbeScope::enter).
THEOREM HotCorrect == Spec => []UndisturbedIsHot
<1>1. ScopeInv => UndisturbedIsHot
  <2> SUFFICES ASSUME ScopeInv, NEW c \in Commands, pc[c] = "live", c \notin disturbed,
                      NEW p \in Matches(c)
               PROVE  enabled[p] /\ stack[p] = Wants(c)
    BY DEF UndisturbedIsHot, Hot
  <2>1. PICK i \in 1 .. Len(Scope[c]) : p = Scope[c][i]
    BY DEF Matches
  <2>2. Slot(c, i)
    BY DEF ScopeInv
  <2>3. QED BY <2>1, <2>2 DEF Slot, NowEnabled, NowStack
<1>2. QED BY <1>1, ScopeInvariant, PTL

\* A streaming command whose probes nobody else wrote leaves them as it found
\* them (ProbeScope's Drop against its enter).
THEOREM RestoreCorrect == Spec => []UndisturbedRestores
<1>1. ScopeInv => UndisturbedRestores
  <2> SUFFICES ASSUME ScopeInv, NEW c \in Commands, Walked(c, "restore"), c \notin disturbed,
                      NEW p \in Matches(c)
               PROVE  enabled[p] = before[c].enabled[p] /\ stack[p] = before[c].stack[p]
    BY DEF UndisturbedRestores
  <2>1. PICK i \in 1 .. Len(Scope[c]) : p = Scope[c][i]
    BY DEF Matches
  <2>2. Slot(c, i) /\ PastFirst(c, i) /\ PastSecond(c, i) /\ pc[c] = "restore"
    BY DEF ScopeInv, Walked, PastFirst, PastSecond
  <2>3. QED BY <2>1, <2>2 DEF Slot, NowEnabled, NowStack, WasEnabled, WasStack
<1>2. QED BY <1>1, ScopeInvariant, PTL

\* A stream nobody disturbs has its probes as it wants them and leaves both
\* bits as it found them: any probes, any commands, any interleaving.
THEOREM UndisturbedCorrect == Spec => []UndisturbedStreams
<1>1. UndisturbedIsHot /\ UndisturbedRestores => UndisturbedStreams
  BY DEF UndisturbedStreams
<1> QED BY <1>1, HotCorrect, RestoreCorrect, PTL

-----------------------------------------------------------------------------
(* What on and off report.                                                 *)

\* The count of c is ahead of what it switched by the probe it has looked at
\* and not yet written, if that one is to change.
Counted(c) ==
  count[c] = turned[c] + IF pc[c] = "set" /\ half[c] /\ Changes(c) THEN 1 ELSE 0

CountInv ==
  /\ count \in [Commands -> Nat] /\ turned \in [Commands -> Nat]
  /\ \A c \in Commands \ disturbed : Kind[c] \in {"on", "off"} => Counted(c)


\* Which step writes the count and the number switched, and by how much.
LEMMA CountStep ==
  ASSUME ScopeType, NEW c \in Commands,
         count \in [Commands -> Nat], turned \in [Commands -> Nat],
         \/ Begin(c) \/ Save(c) \/ SaveDone(c) \/ Arm(c) \/ Stream(c)
         \/ Finish(c) \/ Restore(c) \/ Close(c)
         \/ BeginSet(c) \/ Look(c) \/ Set(c) \/ SetDone(c)
  PROVE  /\ count' \in [Commands -> Nat] /\ turned' \in [Commands -> Nat]
         /\ \A d \in Commands \ {c} : count'[d] = count[d] /\ turned'[d] = turned[d]
         /\ Look(c) /\ Changes(c) => count'[c] = count[c] + 1
         /\ ~(Look(c) /\ Changes(c)) => count'[c] = count[c]
         /\ Set(c) /\ Changes(c) => turned'[c] = turned[c] + 1
         /\ ~(Set(c) /\ Changes(c)) => turned'[c] = turned[c]
<1>1. CASE Look(c)
  <2>1. /\ pc[c] = "set" /\ ~half[c] /\ Kind[c] # "reset" /\ turned' = turned
        /\ count' = [count EXCEPT ![c] = IF Changes(c) THEN @ + 1 ELSE @]
    BY <1>1 DEF Look, Walking, hist
  <2>2. ~Set(c)
    BY <2>1 DEF Set
  <2>3. QED BY <1>1, <2>1, <2>2
<1>2. CASE Set(c)
  <2>1. /\ half[c] \/ Kind[c] = "reset"
        /\ at[c] < Len(Scope[c]) /\ count' = count
        /\ enabled' = [enabled EXCEPT ![Cur(c)] = (Kind[c] = "on")]
        /\ turned' = [turned EXCEPT ![c] = IF enabled' # enabled THEN @ + 1 ELSE @]
    BY <1>2 DEF Set, Walking
  <2>2. ~Look(c)
    BY <2>1 DEF Look
  <2>3. enabled' # enabled <=> Changes(c)
    <3>1. Cur(c) \in Probes /\ enabled \in [Probes -> BOOLEAN]
      BY <2>1, CurInScope DEF ScopeType
    <3> DEFINE on == Kind[c] = "on"
    <3>2. /\ on \in BOOLEAN /\ enabled[Cur(c)] \in BOOLEAN
          /\ enabled' = [enabled EXCEPT ![Cur(c)] = on]
      BY <2>1, <3>1
    <3> HIDE DEF on
    <3>3. enabled'[Cur(c)] = on
      BY <3>1, <3>2
    <3>4. enabled[Cur(c)] = on => enabled' = enabled
      BY <3>1, <3>2
    <3>5. enabled' # enabled <=> enabled[Cur(c)] # on
      BY <3>3, <3>4
    <3>6. QED BY <3>5 DEF Changes, on
  <2>4. QED BY <1>2, <2>1, <2>2, <2>3
<1>3. CASE ~Look(c) /\ ~Set(c)
  <2>1. count' = count /\ turned' = turned
    BY <1>3 DEF Begin, Save, SaveDone, Arm, Stream, Finish, Restore, Close,
       BeginSet, SetDone, hist
  <2>2. QED BY <1>3, <2>1
<1>4. QED BY <1>1, <1>2, <1>3

\* The count of the command that moves.
LEMMA OwnCount ==
  ASSUME ScopeType, NEW c \in Commands, Kind[c] \in {"on", "off"}, Counted(c),
         count \in [Commands -> Nat], turned \in [Commands -> Nat],
         \/ Begin(c) \/ Save(c) \/ SaveDone(c) \/ Arm(c) \/ Stream(c)
         \/ Finish(c) \/ Restore(c) \/ Close(c)
         \/ BeginSet(c) \/ Look(c) \/ Set(c) \/ SetDone(c)
  PROVE  Counted(c)'
<1>1. count[c] \in Nat /\ turned[c] \in Nat /\ half[c] \in BOOLEAN
  BY DEF ScopeType
<1>2. CASE Look(c)
  <2>1. ~half[c] /\ Advance(c) /\ enabled' = enabled /\ pc[c] = "set"
    BY <1>2 DEF Look, flags, Walking
  <2>2. half'[c] = TRUE /\ at'[c] = at[c] /\ pc'[c] = "set"
    BY <2>1, AdvanceType
  <2>3. Changes(c)' <=> Changes(c)
    BY <2>1, <2>2 DEF Changes, Cur
  <2>4. count'[c] = count[c] + (IF Changes(c) THEN 1 ELSE 0) /\ turned'[c] = turned[c]
    <3>1. ~Set(c)
      BY <1>2, <2>1 DEF Look, Set
    <3>2. QED BY <1>1, <1>2, <3>1, CountStep
  <2>5. count[c] = turned[c]
    BY <1>1, <2>1 DEF Counted
  <2>6. QED BY <1>1, <2>2, <2>3, <2>4, <2>5 DEF Counted
<1>3. CASE Set(c)
  <2>1. half[c] /\ half'[c] = FALSE /\ pc[c] = "set"
    BY <1>3 DEF Set, ScopeType, Walking
  <2>2. turned'[c] = turned[c] + (IF Changes(c) THEN 1 ELSE 0) /\ count'[c] = count[c]
    <3>1. ~Look(c)
      BY <2>1 DEF Look
    <3>2. QED BY <1>1, <1>3, <3>1, CountStep
  <2>3. QED BY <1>1, <2>1, <2>2 DEF Counted
<1>4. CASE ~Look(c) /\ ~Set(c)
  <2>1. count'[c] = count[c] /\ turned'[c] = turned[c]
    BY <1>1, <1>4, CountStep
  <2>2. ~(pc'[c] = "set" /\ half'[c]) /\ ~(pc[c] = "set" /\ half[c])
    <3>1. CASE BeginSet(c) \/ SetDone(c)
      BY <3>1 DEF BeginSet, SetDone, Goto, ScopeType, Lengths, Walked
    <3>2. CASE ~(BeginSet(c) \/ SetDone(c))
      <4>1. Kind[c] \notin Streaming
        BY DEF Streaming
      <4>2. pc[c] # "set"
        BY <1>4, <3>2 DEF Begin, Save, SaveDone, Arm, Stream, Finish, Restore, Close,
           Walking, Walked
      <4>3. pc'[c] # "set"
        BY <1>4, <3>2, <4>1, <4>2 DEF Begin, Save, SaveDone, Arm, Stream, Finish, Restore, Close,
           Goto, Advance, ScopeType
      <4>4. QED BY <4>2, <4>3
    <3>3. QED BY <3>1, <3>2
  <2>3. QED BY <1>1, <2>1, <2>2 DEF Counted
<1>5. QED BY <1>2, <1>3, <1>4

\* Nobody else changes the count of a command that stays undisturbed, nor the
\* probe it is looking at.
LEMMA OthersCount ==
  ASSUME ScopeType, NEW c \in Commands, NEW d \in Commands \ {c}, d \notin disturbed',
         Counted(d), count \in [Commands -> Nat], turned \in [Commands -> Nat],
         \/ Begin(c) \/ Save(c) \/ SaveDone(c) \/ Arm(c) \/ Stream(c)
         \/ Finish(c) \/ Restore(c) \/ Close(c)
         \/ BeginSet(c) \/ Look(c) \/ Set(c) \/ SetDone(c)
  PROVE  Counted(d)'
<1>1. count'[d] = count[d] /\ turned'[d] = turned[d]
  BY CountStep
<1>2. pc'[d] = pc[d] /\ at'[d] = at[d] /\ half'[d] = half[d]
  BY Footprint
<1>3. ASSUME pc[d] = "set", half[d] PROVE Changes(d)' <=> Changes(d)
  <2>1. at[d] < Len(Scope[d])
    BY <1>3 DEF ScopeType, Lengths
  <2>2. Cur(d) \in Probes /\ Cur(d) \in Matches(d) /\ IsOpen(d)
    BY <1>3, <2>1, CurInScope DEF Matches, IsOpen
  <2>3. enabled'[Cur(d)] = enabled[Cur(d)]
    BY <2>2, Footprint DEF flags
  <2>4. QED BY <1>2, <2>3 DEF Changes, Cur
<1>4. QED BY <1>1, <1>2, <1>3 DEF Counted

LEMMA CountInvNext ==
  ASSUME ScopeInv, CountInv, [Next]_vars
  PROVE  CountInv'
<1>1. CASE UNCHANGED vars
  BY <1>1 DEF vars, flags, hist, CountInv, Counted, Changes, Cur
<1>2. ASSUME NEW c \in Commands,
             \/ Begin(c) \/ Save(c) \/ SaveDone(c) \/ Arm(c) \/ Stream(c)
             \/ Finish(c) \/ Restore(c) \/ Close(c)
             \/ BeginSet(c) \/ Look(c) \/ Set(c) \/ SetDone(c)
      PROVE  CountInv'
  <2>1. ScopeType /\ count \in [Commands -> Nat] /\ turned \in [Commands -> Nat]
    BY DEF ScopeInv, CountInv
  <2>2. disturbed \subseteq disturbed'
    BY <1>2 DEF Begin, Save, SaveDone, Arm, Stream, Finish, Restore, Close,
       BeginSet, Look, Set, SetDone, hist, Disturb
  <2>3. ASSUME NEW d \in Commands \ disturbed', Kind[d] \in {"on", "off"}
        PROVE  Counted(d)'
    <3>1. Counted(d)
      BY <2>2, <2>3 DEF CountInv
    <3>2. QED BY <1>2, <2>1, <2>3, <3>1, OwnCount, OthersCount
  <2>4. QED BY <1>2, <2>1, <2>3, CountStep DEF CountInv
<1>3. QED BY <1>1, <1>2 DEF Next

-----------------------------------------------------------------------------
(* Scopes that nest.                                                       *)

HIDE ProbeScopeAssumption

Top == nest[Len(nest)]

\* What p is set to while c streams and nothing younger runs.
LiveEnabled(c, p) == IF p \in Matches(c) THEN TRUE ELSE before[c].enabled[p]
LiveStack(c, p) == IF p \in Matches(c) THEN Wants(c) ELSE before[c].stack[p]

\* The open commands are the ones in nest, once each; all but the youngest
\* are streaming.
OpenIsInNest == \A c \in Commands : IsOpen(c) <=> \E k \in 1 .. Len(nest) : nest[k] = c
InNestOnce == \A k, l \in 1 .. Len(nest) : nest[k] = nest[l] => k = l
OuterIsLive == \A k \in 1 .. Len(nest) : k < Len(nest) => pc[nest[k]] = "live"
Brackets ==
  /\ \A c \in Commands : pc[c] # "set"
  /\ OpenIsInNest /\ InNestOnce /\ OuterIsLive

\* Each began on what the one around it had set, the oldest on quiet probes,
\* and an outer one still has saved what it found.
FoundQuiet(c) == \A p \in Probes : before[c].enabled[p] = FALSE /\ before[c].stack[p] = FALSE
FoundLive(c, d) == \A p \in Probes : /\ before[c].enabled[p] = LiveEnabled(d, p)
                                     /\ before[c].stack[p] = LiveStack(d, p)
HasSaved(c) == \A i \in 1 .. Len(Scope[c]) : /\ saved[c][i].enabled = WasEnabled(c, i)
                                             /\ saved[c][i].stack = WasStack(c, i)
Layer(k) == FoundLive(nest[k + 1], nest[k]) /\ HasSaved(nest[k])
Ground == Len(nest) > 0 => FoundQuiet(nest[1])
Layers == Ground /\ \A k \in 1 .. Len(nest) : k < Len(nest) => Layer(k)

\* The youngest has its probes to itself, and the others are as it found them.
Innermost ==
  /\ Len(nest) = 0 => \A p \in Probes : enabled[p] = FALSE /\ stack[p] = FALSE
  /\ Len(nest) > 0 =>
       /\ \A i \in 1 .. Len(Scope[Top]) : Slot(Top, i)
       /\ \A p \in Probes \ Matches(Top) :
            enabled[p] = before[Top].enabled[p] /\ stack[p] = before[Top].stack[p]

NestInv == nested => Brackets /\ Layers /\ Innermost

\* An open command that is not streaming is the youngest.
LEMMA OpenIsTop ==
  ASSUME nest \in Seq(Commands), Brackets, NEW c \in Commands, IsOpen(c), pc[c] # "live"
  PROVE  Len(nest) \in Nat /\ Len(nest) > 0 /\ c = Top
<1>1. PICK k \in 1 .. Len(nest) : nest[k] = c
  BY DEF Brackets, OpenIsInNest
<1>2. k = Len(nest)
  BY <1>1 DEF Brackets, OuterIsLive
<1>3. QED BY <1>1, <1>2 DEF Top

LEMMA MatchIsSlot ==
  ASSUME NEW c \in Commands, NEW p \in Matches(c)
  PROVE  \E i \in 1 .. Len(Scope[c]) : Scope[c][i] = p
  BY DEF Matches

\* A layer stays while its two commands keep their records.
LEMMA SameLayer ==
  ASSUME NEW k, Layer(k), nest'[k] = nest[k], nest'[k + 1] = nest[k + 1],
         before'[nest[k]] = before[nest[k]], before'[nest[k + 1]] = before[nest[k + 1]],
         saved'[nest[k]] = saved[nest[k]]
  PROVE  Layer(k)'
<1>1. FoundLive(nest[k + 1], nest[k])'
  BY DEF Layer, FoundLive, LiveEnabled, LiveStack
<1>2. HasSaved(nest[k])'
  BY DEF Layer, HasSaved, WasEnabled, WasStack
<1>3. QED BY <1>1, <1>2 DEF Layer

\* A step of the youngest command that neither opens nor closes its scope.
LEMMA TopStep ==
  ASSUME ScopeType, nest \in Seq(Commands), Brackets, Layers, Innermost,
         Len(nest) > 0, NEW c \in Commands, c = Top,
         Save(c) \/ SaveDone(c) \/ Arm(c) \/ Stream(c) \/ Finish(c) \/ Restore(c)
  PROVE  Brackets' /\ Layers' /\ Innermost'
<1>1. /\ nest' = nest /\ before' = before /\ Len(nest) \in Nat
      /\ nest[Len(nest)] = c
      /\ \A k \in 1 .. Len(nest) : nest[k] \in Commands
  BY ElementOf DEF Save, SaveDone, Arm, Stream, Finish, Restore, hist, Top
<1>2. IsOpen(c) /\ IsOpen(c)' /\ pc'[c] # "set"
  BY DEF Save, SaveDone, Arm, Stream, Finish, Restore, IsOpen, Walking, Walked, Goto, Advance,
     ScopeType
<1>3. \A d \in Commands \ {c} : pc'[d] = pc[d] /\ saved'[d] = saved[d]
  BY Footprint
<1>4. \A k \in 1 .. Len(nest) : k < Len(nest) => nest[k] \in Commands \ {c}
  BY <1>1 DEF Brackets, InNestOnce
<1>5. Brackets'
  <2>1. \A d \in Commands : pc'[d] # "set" /\ (IsOpen(d)' <=> IsOpen(d))
    BY <1>2, <1>3 DEF IsOpen, Brackets
  <2>2. \A k \in 1 .. Len(nest) : k < Len(nest) => pc'[nest[k]] = "live"
    BY <1>3, <1>4 DEF Brackets, OuterIsLive
  <2>3. OpenIsInNest' /\ InNestOnce' /\ OuterIsLive'
    BY <1>1, <2>1, <2>2 DEF Brackets, OpenIsInNest, InNestOnce, OuterIsLive
  <2>4. QED BY <2>1, <2>3 DEF Brackets
<1>6. Layers'
  <2>1. Ground'
    BY <1>1 DEF Layers, Ground, FoundQuiet
  <2>2. ASSUME NEW k \in 1 .. Len(nest), k < Len(nest) PROVE Layer(k)'
    <3>1. Layer(k)
      BY <2>2 DEF Layers
    <3>2. saved'[nest[k]] = saved[nest[k]]
      BY <1>3, <1>4, <2>2
    <3>3. QED BY <1>1, <3>1, <3>2, SameLayer
  <2>3. QED BY <1>1, <2>1, <2>2 DEF Layers
<1>7. \A j \in 1 .. Len(Scope[c]) : Slot(c, j)'
  BY SaveSlot, ArmSlot, RestoreSlot, PhaseSlot DEF Innermost
<1>8. \A p \in Probes \ Matches(c) : enabled'[p] = enabled[p] /\ stack'[p] = stack[p]
  <2>1. CASE Arm(c) \/ Restore(c)
    <3>1. Cur(c) \in Matches(c)
      BY <2>1, CurInScope DEF Arm, Restore, Walking, Matches
    <3>2. QED BY <2>1, <3>1 DEF Arm, Restore, ScopeType
  <2>2. CASE ~(Arm(c) \/ Restore(c))
    BY <2>2 DEF Save, SaveDone, Stream, Finish, flags
  <2>3. QED BY <2>1, <2>2
<1>9. Innermost'
  BY <1>1, <1>7, <1>8 DEF Innermost, Top
<1>10. QED BY <1>5, <1>6, <1>9

\* What the youngest has set once it streams.
LEMMA TopIsLive ==
  ASSUME nest \in Seq(Commands), Innermost, Len(nest) > 0, pc[Top] = "live"
  PROVE  /\ \A p \in Probes : enabled[p] = LiveEnabled(Top, p) /\ stack[p] = LiveStack(Top, p)
         /\ HasSaved(Top)
<1>1. Top \in Commands
  BY ElementOf DEF Top
<1>2. ASSUME NEW p \in Probes
      PROVE  enabled[p] = LiveEnabled(Top, p) /\ stack[p] = LiveStack(Top, p)
  <2>1. CASE p \in Matches(Top)
    <3>1. PICK i \in 1 .. Len(Scope[Top]) : Scope[Top][i] = p
      BY <1>1, <2>1, MatchIsSlot
    <3>2. QED BY <2>1, <3>1 DEF Innermost, Slot, NowEnabled, NowStack, LiveEnabled, LiveStack
  <2>2. CASE p \notin Matches(Top)
    BY <2>2 DEF Innermost, LiveEnabled, LiveStack
  <2>3. QED BY <2>1, <2>2
<1>3. QED BY <1>2 DEF Innermost, Slot, HasSaved

\* A scope opens inside the youngest, which streams.
LEMMA OpenStep ==
  ASSUME ScopeType, nest \in Seq(Commands), Brackets, Layers, Innermost,
         NEW c \in Commands, Begin(c), Scope[c] # <<>>, nested'
  PROVE  Brackets' /\ Layers' /\ Innermost'
<1> DEFINE n == Len(nest)
<1>1. /\ pc[c] = "idle" /\ pc'[c] = "save" /\ enabled' = enabled /\ stack' = stack
      /\ saved' = saved
      /\ \A k \in 1 .. n : pc[nest[k]] = "live"
  <2>1. nested' = (nested /\ \A i \in DOMAIN nest : pc[nest[i]] = "live")
    BY DEF Begin
  <2>2. \A i \in DOMAIN nest : pc[nest[i]] = "live"
    BY <2>1, Zenon
  <2>3. QED BY <2>2 DEF Begin, Goto, flags, ScopeType
<1>2. /\ n \in Nat /\ nest' = Append(nest, c) /\ Len(nest') = n + 1 /\ nest'[n + 1] = c
      /\ \A k \in 1 .. n : nest'[k] = nest[k] /\ nest[k] \in Commands
  <2>1. nest' = Append(nest, c)
    BY DEF Begin
  <2>2. \A k \in 1 .. n : nest[k] \in Commands
    BY ElementOf
  <2>3. QED BY <2>1, <2>2
<1>3. \A k \in 1 .. n : nest[k] # c
  BY <1>1
<1>4. /\ before'[c] = [enabled |-> enabled, stack |-> stack]
      /\ \A d \in Commands \ {c} : pc'[d] = pc[d] /\ before'[d] = before[d]
  BY Footprint DEF Begin, ScopeType, BeforeType
<1> HIDE DEF n
<1>5. Brackets'
  <2>1. \A d \in Commands : pc'[d] # "set"
    BY <1>1, <1>4 DEF Brackets
  <2>2. \A k \in 1 .. Len(nest') : k < Len(nest') => pc'[nest'[k]] = "live"
    BY <1>1, <1>2, <1>3, <1>4
  <2>3. \A k, l \in 1 .. Len(nest') : nest'[k] = nest'[l] => k = l
    BY <1>2, <1>3 DEF Brackets, InNestOnce, n
  <2>4. ASSUME NEW d \in Commands
        PROVE  IsOpen(d)' <=> \E k \in 1 .. Len(nest') : nest'[k] = d
    <3>1. CASE d = c
      BY <1>1, <1>2, <3>1 DEF IsOpen
    <3>2. CASE d # c
      <4>1. IsOpen(d)' <=> IsOpen(d)
        BY <1>4, <3>2 DEF IsOpen
      <4>2. IsOpen(d) <=> \E k \in 1 .. n : nest[k] = d
        BY DEF Brackets, OpenIsInNest, n
      <4>3. (\E k \in 1 .. n : nest[k] = d) <=> (\E k \in 1 .. n + 1 : nest'[k] = d)
        BY <1>2, <3>2
      <4>4. QED BY <1>2, <4>1, <4>2, <4>3
    <3>3. QED BY <3>1, <3>2
  <2>5. OpenIsInNest' /\ InNestOnce' /\ OuterIsLive'
    BY <2>2, <2>3, <2>4 DEF OpenIsInNest, InNestOnce, OuterIsLive
  <2>6. QED BY <2>1, <2>5 DEF Brackets
<1>6. Layers'
  <2>1. ASSUME NEW k \in 1 .. n, k < n
        PROVE  Layer(k)'
    <3>1. /\ nest'[k] = nest[k] /\ nest'[k + 1] = nest[k + 1] /\ k + 1 \in 1 .. n
          /\ before'[nest[k]] = before[nest[k]] /\ before'[nest[k + 1]] = before[nest[k + 1]]
      BY <1>2, <1>3, <1>4, <2>1
    <3>2. Layer(k)
      BY <2>1 DEF Layers, n
    <3>3. QED BY <1>1, <3>1, <3>2, SameLayer
  <2>2. ASSUME NEW k, k = n, n > 0
        PROVE  Layer(k)'
    <3>1. PICK t \in Commands : t = Top
      BY <1>2, <2>2 DEF Top, n
    <3>2. /\ nest'[k] = t /\ nest'[k + 1] = c /\ pc[Top] = "live" /\ before'[t] = before[t]
      BY <1>1, <1>2, <1>3, <1>4, <2>2, <3>1 DEF Top, n
    <3>3. /\ \A p \in Probes : enabled[p] = LiveEnabled(t, p) /\ stack[p] = LiveStack(t, p)
          /\ HasSaved(t)
      BY <2>2, <3>1, <3>2, TopIsLive DEF n
    <3>4. ASSUME NEW p \in Probes
          PROVE  /\ before'[c].enabled[p] = LiveEnabled(t, p)'
                 /\ before'[c].stack[p] = LiveStack(t, p)'
      <4>1. LiveEnabled(t, p)' = LiveEnabled(t, p) /\ LiveStack(t, p)' = LiveStack(t, p)
        BY <3>2 DEF LiveEnabled, LiveStack
      <4>2. before'[c].enabled[p] = enabled[p] /\ before'[c].stack[p] = stack[p]
        BY <1>4
      <4>3. QED BY <3>3, <4>1, <4>2
    <3>5. FoundLive(nest[k + 1], nest[k])'
      BY <3>2, <3>4 DEF FoundLive, LiveEnabled, LiveStack
    <3>6. HasSaved(nest[k])'
      BY <1>1, <3>2, <3>3 DEF HasSaved, WasEnabled, WasStack
    <3>7. QED BY <3>5, <3>6 DEF Layer
  <2>3. Ground'
    <3>1. CASE n = 0
      <4>1. nest'[1] = c /\ \A p \in Probes : enabled[p] = FALSE /\ stack[p] = FALSE
        BY <1>2, <3>1 DEF Innermost, n
      <4>2. QED BY <1>4, <4>1 DEF Ground, FoundQuiet
    <3>2. CASE n > 0
      <4>1. nest'[1] = nest[1] /\ before'[nest[1]] = before[nest[1]]
        BY <1>2, <1>3, <1>4, <3>2
      <4>2. FoundQuiet(nest[1])
        BY <3>2 DEF Layers, Ground, n
      <4>3. QED BY <4>1, <4>2 DEF Ground, FoundQuiet
    <3>3. QED BY <1>2, <3>1, <3>2
  <2>4. \A k \in 1 .. n + 1 : k < n + 1 => (k \in 1 .. n /\ k < n) \/ (k = n /\ n > 0)
    BY <1>2
  <2>5. \A k \in 1 .. Len(nest') : k < Len(nest') => Layer(k)'
    BY <1>2, <2>1, <2>2, <2>4
  <2>6. QED BY <2>3, <2>5 DEF Layers
<1>7. Innermost'
  <2>1. \A j \in 1 .. Len(Scope[c]) : Slot(c, j)'
    BY BeginSlot
  <2>2. \A p \in Probes : enabled'[p] = before'[c].enabled[p] /\ stack'[p] = before'[c].stack[p]
    BY <1>1, <1>4
  <2>3. Top' = c /\ Len(nest') # 0
    BY <1>2 DEF Top
  <2>4. QED BY <2>1, <2>2, <2>3 DEF Innermost
<1>8. QED BY <1>5, <1>6, <1>7

\* The youngest closes its scope: the one around it finds its setting again.
LEMMA CloseStep ==
  ASSUME ScopeType, nest \in Seq(Commands), nested, Brackets, Layers, Innermost,
         Len(nest) > 0, NEW c \in Commands, c = Top, Close(c)
  PROVE  Brackets' /\ Layers' /\ Innermost'
<1> DEFINE n == Len(nest)
<1>1. /\ n \in Nat /\ n > 0 /\ nest[n] = c
      /\ \A k \in 1 .. n : nest[k] \in Commands
  BY ElementOf DEF Top
<1>2. n - 1 \in Nat /\ Len(nest') = n - 1 /\ \A k \in 1 .. n - 1 : nest'[k] = nest[k]
  BY Shorter DEF Close
<1>3. /\ pc[c] = "restore" /\ pc'[c] = "done" /\ at[c] = Len(Scope[c])
      /\ enabled' = enabled /\ stack' = stack /\ saved' = saved /\ before' = before
      /\ \A d \in Commands \ {c} : pc'[d] = pc[d]
  BY DEF Close, Walked, Goto, flags, ScopeType
<1>4. \A k \in 1 .. n - 1 : nest[k] \in Commands \ {c} /\ pc[nest[k]] = "live"
  BY <1>1 DEF Brackets, InNestOnce, OuterIsLive, n
<1>5. ASSUME NEW p \in Probes
      PROVE  enabled[p] = before[c].enabled[p] /\ stack[p] = before[c].stack[p]
  <2>1. CASE p \in Matches(c)
    <3>1. PICK i \in 1 .. Len(Scope[c]) : Scope[c][i] = p
      BY <2>1, MatchIsSlot
    <3>2. PastFirst(c, i) /\ PastSecond(c, i)
      BY <1>3 DEF PastFirst, PastSecond
    <3>3. Slot(c, i)
      BY <1>1 DEF Innermost
    <3>4. QED BY <1>3, <3>1, <3>2, <3>3
              DEF Slot, NowEnabled, NowStack, WasEnabled, WasStack
  <2>2. CASE p \notin Matches(c)
    BY <1>1, <2>2 DEF Innermost
  <2>3. QED BY <2>1, <2>2
<1> HIDE DEF n
<1>6. Brackets'
  <2>1. \A d \in Commands : pc'[d] # "set"
    BY <1>3 DEF Brackets
  <2>2. \A k \in 1 .. n - 1 : pc'[nest[k]] = "live"
    BY <1>3, <1>4
  <2>3. \A k, l \in 1 .. n - 1 : nest[k] = nest[l] => k = l
    BY <1>1 DEF Brackets, InNestOnce, n
  <2>4. ASSUME NEW d \in Commands
        PROVE  IsOpen(d)' <=> \E k \in 1 .. n - 1 : nest[k] = d
    <3>1. CASE d = c
      BY <1>3, <1>4, <3>1 DEF IsOpen
    <3>2. CASE d # c
      <4>1. IsOpen(d)' <=> \E k \in 1 .. n : nest[k] = d
        BY <1>3, <3>2 DEF IsOpen, Brackets, OpenIsInNest, n
      <4>2. QED BY <1>1, <3>2, <4>1
    <3>3. QED BY <3>1, <3>2
  <2>5. \A k \in 1 .. n - 1 : k < n - 1 => pc'[nest'[k]] = "live"
    BY <1>2, <2>2
  <2>6. OpenIsInNest' /\ InNestOnce' /\ OuterIsLive'
    BY <1>1, <1>2, <2>3, <2>4, <2>5 DEF OpenIsInNest, InNestOnce, OuterIsLive
  <2>7. QED BY <2>1, <2>6 DEF Brackets
<1>7. Layers'
  <2>1. ASSUME NEW k \in 1 .. n - 1, k < n - 1
        PROVE  Layer(k)'
    <3>1. /\ k \in 1 .. n /\ k < n /\ k + 1 \in 1 .. n - 1
          /\ nest'[k] = nest[k] /\ nest'[k + 1] = nest[k + 1]
      BY <1>1, <1>2, <2>1
    <3>2. Layer(k)
      BY <3>1 DEF Layers, n
    <3>3. QED BY <1>3, <3>1, <3>2, SameLayer
  <2>2. Ground'
    BY <1>1, <1>2, <1>3 DEF Layers, Ground, FoundQuiet, n
  <2>3. QED BY <1>2, <2>1, <2>2 DEF Layers
<1>8. Innermost'
  <2>1. CASE n = 1
    BY <1>1, <1>2, <1>3, <1>5, <2>1 DEF Innermost, Layers, Ground, FoundQuiet, n
  <2>2. CASE n > 1
    <3>0. PICK t \in Commands : t = nest[n - 1]
      BY <1>1, <2>2
    <3>1. /\ n - 1 \in 1 .. n - 1 /\ n - 1 \in 1 .. n /\ n - 1 < n /\ (n - 1) + 1 = n
          /\ pc'[t] = "live" /\ Top' = t
      BY <1>1, <1>2, <1>3, <1>4, <2>2, <3>0 DEF Top
    <3>2. /\ \A p \in Probes : /\ before[c].enabled[p] = LiveEnabled(t, p)
                               /\ before[c].stack[p] = LiveStack(t, p)
          /\ \A i \in 1 .. Len(Scope[t]) : /\ saved[t][i].enabled = WasEnabled(t, i)
                                           /\ saved[t][i].stack = WasStack(t, i)
      <4>1. Layer(n - 1)
        BY <3>1 DEF Layers, n
      <4>2. FoundLive(c, t) /\ HasSaved(t)
        BY <1>1, <3>0, <3>1, <4>1 DEF Layer
      <4>3. QED BY <4>2 DEF FoundLive, HasSaved
    <3>3. \A p \in Probes \ Matches(t) :
            enabled'[p] = before'[t].enabled[p] /\ stack'[p] = before'[t].stack[p]
      BY <1>3, <1>5, <3>2 DEF LiveEnabled, LiveStack
    <3>4. ASSUME NEW i \in 1 .. Len(Scope[t])
          PROVE  Slot(t, i)'
      <4>1. Scope[t][i] \in Probes /\ Scope[t][i] \in Matches(t)
        BY <3>1, ElementOf, ProbeScopeAssumption DEF Matches
      <4>2. enabled'[Scope[t][i]] = TRUE /\ stack'[Scope[t][i]] = Wants(t)
        BY <1>3, <1>5, <3>2, <4>1 DEF LiveEnabled, LiveStack
      <4>3. saved'[t][i].enabled = WasEnabled(t, i)' /\ saved'[t][i].stack = WasStack(t, i)'
        BY <1>3, <3>2 DEF WasEnabled, WasStack
      <4>4. pc'[t] = "live"
        BY <3>1
      <4>5. QED BY <4>2, <4>3, <4>4 DEF Slot, NowEnabled, NowStack
    <3>5. QED BY <1>2, <2>2, <3>1, <3>3, <3>4 DEF Innermost
  <2>3. QED BY <1>1, <2>1, <2>2
<1>9. QED BY <1>6, <1>7, <1>8

NestTypes == disturbed \subseteq Commands /\ nest \in Seq(Commands) /\ nested \in BOOLEAN

\* Which step writes the nesting, and that a scope closes from the inside.
LEMMA NestStep ==
  ASSUME ScopeType, NestTypes, NestInv, NEW c \in Commands,
         \/ Begin(c) \/ Save(c) \/ SaveDone(c) \/ Arm(c) \/ Stream(c)
         \/ Finish(c) \/ Restore(c) \/ Close(c)
         \/ BeginSet(c) \/ Look(c) \/ Set(c) \/ SetDone(c)
  PROVE  NestTypes' /\ (nested' => nested)
<1>1. nest \in Seq(Commands) /\ nested \in BOOLEAN
  BY DEF NestTypes
<1>2. disturbed' \subseteq Commands
  BY DEF Begin, Save, SaveDone, Arm, Stream, Finish, Restore, Close,
     BeginSet, Look, Set, SetDone, hist, Disturb, NestTypes
<1>3. nested' \in BOOLEAN /\ (nested' => nested)
  <2>1. CASE Begin(c)
    <3> DEFINE quiet == nested /\ \A i \in DOMAIN nest : pc[nest[i]] = "live"
    <3>1. quiet \in BOOLEAN /\ (quiet => nested)
      OBVIOUS
    <3>2. CASE Scope[c] = <<>>
      BY <1>1, <2>1, <3>2 DEF Begin
    <3>3. CASE Scope[c] # <<>>
      <4>1. nested' = quiet
        BY <2>1, <3>3 DEF Begin
      <4> HIDE DEF quiet
      <4>2. QED BY <3>1, <4>1
    <3>4. QED BY <3>2, <3>3
  <2>2. CASE Finish(c)
    <3> DEFINE inner == nested /\ nest # <<>> /\ nest[Len(nest)] = c
    <3>1. inner \in BOOLEAN /\ (inner => nested)
      OBVIOUS
    <3>2. nested' = inner
      BY <2>2 DEF Finish
    <3> HIDE DEF inner
    <3>3. QED BY <3>1, <3>2
  <2>3. CASE ~Begin(c) /\ ~Finish(c)
    <3>1. CASE BeginSet(c)
      BY <3>1 DEF BeginSet
    <3>2. CASE ~BeginSet(c)
      BY <1>1, <2>3, <3>2
         DEF Save, SaveDone, Arm, Stream, Restore, Close, Look, Set, SetDone, hist
    <3>3. QED BY <3>1, <3>2
  <2>4. QED BY <2>1, <2>2, <2>3
<1>4. nest' \in Seq(Commands)
  <2>1. CASE Begin(c)
    BY <1>1, <2>1 DEF Begin
  <2>2. CASE Close(c)
    <3>1. CASE nested
      <4>1. IsOpen(c) /\ pc[c] # "live" /\ Brackets
        BY <2>2, <3>1 DEF Close, Walked, IsOpen, NestInv
      <4>2. Len(nest) > 0
        BY <1>1, <4>1, OpenIsTop
      <4>3. QED BY <1>1, <2>2, <3>1, <4>2, Shorter DEF Close
    <3>2. CASE ~nested
      BY <1>1, <2>2, <3>2 DEF Close
    <3>3. QED BY <3>1, <3>2
  <2>3. CASE ~Begin(c) /\ ~Close(c)
    BY <1>1, <2>3 DEF Save, SaveDone, Arm, Stream, Finish, Restore, BeginSet, Look, Set,
       SetDone, hist
  <2>4. QED BY <2>1, <2>2, <2>3
<1>5. QED BY <1>2, <1>3, <1>4 DEF NestTypes

LEMMA NestInvNext ==
  ASSUME ScopeType, NestTypes, NestInv, NEW c \in Commands, nested',
         \/ Begin(c) \/ Save(c) \/ SaveDone(c) \/ Arm(c) \/ Stream(c)
         \/ Finish(c) \/ Restore(c) \/ Close(c)
         \/ BeginSet(c) \/ Look(c) \/ Set(c) \/ SetDone(c)
  PROVE  Brackets' /\ Layers' /\ Innermost'
<1>1. nested /\ nest \in Seq(Commands) /\ Brackets /\ Layers /\ Innermost
  BY NestStep DEF NestInv, NestTypes
<1>2. CASE Begin(c) /\ Scope[c] # <<>>
  BY <1>1, <1>2, OpenStep
<1>3. CASE Begin(c) /\ Scope[c] = <<>>
  <2>1. /\ pc[c] = "idle" /\ pc'[c] = "done" /\ nest' = nest
        /\ enabled' = enabled /\ stack' = stack /\ saved' = saved
        /\ \A d \in Commands \ {c} : pc'[d] = pc[d] /\ before'[d] = before[d]
        /\ \A d \in Commands \ {c} : at'[d] = at[d] /\ half'[d] = half[d]
    BY <1>3, Footprint DEF Begin, Goto, flags, ScopeType
  <2>2. \A d \in Commands : (IsOpen(d)' <=> IsOpen(d)) /\ pc'[d] # "set"
    BY <1>1, <2>1 DEF IsOpen, Brackets
  <2>3. \A k \in 1 .. Len(nest) : nest[k] \in Commands \ {c}
    <3>1. ~IsOpen(c)
      BY <2>1 DEF IsOpen
    <3>2. QED BY <1>1, <3>1, ElementOf DEF Brackets, OpenIsInNest
  <2>4. Brackets'
    <3>1. OpenIsInNest' /\ InNestOnce'
      BY <1>1, <2>1, <2>2 DEF Brackets, OpenIsInNest, InNestOnce
    <3>2. OuterIsLive'
      BY <1>1, <2>1, <2>3 DEF Brackets, OuterIsLive
    <3>3. QED BY <2>2, <3>1, <3>2 DEF Brackets
  <2>5. Layers'
    <3>1. Len(nest) \in Nat
      BY <1>1
    <3>2. Ground'
      BY <1>1, <2>1, <2>3, <3>1 DEF Layers, Ground, FoundQuiet
    <3>3. ASSUME NEW k \in 1 .. Len(nest), k < Len(nest) PROVE Layer(k)'
      <4>1. k + 1 \in 1 .. Len(nest)
        BY <3>1, <3>3
      <4>2. Layer(k)
        BY <1>1, <3>3 DEF Layers
      <4>3. QED BY <2>1, <2>3, <4>1, <4>2, SameLayer
    <3>4. QED BY <2>1, <3>2, <3>3 DEF Layers
  <2>6. Innermost'
    <3>1. CASE Len(nest) = 0
      BY <1>1, <2>1, <3>1 DEF Innermost
    <3>2. CASE Len(nest) > 0
      <4>1. PICK t \in Commands \ {c} : t = nest[Len(nest)]
        BY <1>1, <2>3, <3>2
      <4>2. Top = t /\ Top' = t
        BY <2>1, <4>1 DEF Top
      <4>3. ASSUME NEW i \in 1 .. Len(Scope[t]) PROVE Slot(t, i)'
        <5>1. Slot(t, i)
          BY <1>1, <3>2, <4>2 DEF Innermost
        <5>2. QED BY <2>1, <4>1, <5>1
                  DEF Slot, PastFirst, PastSecond, NowEnabled, NowStack, WasEnabled, WasStack
      <4>4. \A p \in Probes \ Matches(t) :
              enabled'[p] = before'[t].enabled[p] /\ stack'[p] = before'[t].stack[p]
        BY <1>1, <2>1, <3>2, <4>1, <4>2 DEF Innermost
      <4>5. QED BY <2>1, <3>2, <4>2, <4>3, <4>4 DEF Innermost
    <3>3. Len(nest) = 0 \/ Len(nest) > 0
      BY <1>1
    <3>4. QED BY <3>1, <3>2, <3>3
  <2>7. QED BY <2>4, <2>5, <2>6
<1>4. CASE Save(c) \/ SaveDone(c) \/ Arm(c) \/ Stream(c) \/ Restore(c)
  <2>1. IsOpen(c) /\ pc[c] # "live"
    BY <1>4 DEF Save, SaveDone, Arm, Stream, Restore, Walking, Walked, IsOpen
  <2>2. QED BY <1>1, <1>4, <2>1, OpenIsTop, TopStep
<1>5. CASE Finish(c)
  <2>1. nested' = (nested /\ nest # <<>> /\ nest[Len(nest)] = c)
    BY <1>5 DEF Finish
  <2>2. nest # <<>> /\ nest[Len(nest)] = c
    BY <2>1, Zenon
  <2>3. Len(nest) > 0 /\ c = Top
    BY <1>1, <2>2 DEF Top
  <2>4. QED BY <1>1, <1>5, <2>3, TopStep
<1>6. CASE Close(c)
  <2>1. IsOpen(c) /\ pc[c] # "live"
    BY <1>6 DEF Close, Walked, IsOpen
  <2>2. QED BY <1>1, <1>6, <2>1, OpenIsTop, CloseStep
<1>7. CASE BeginSet(c) \/ Look(c) \/ Set(c) \/ SetDone(c)
  <2>1. pc[c] # "set"
    BY <1>1 DEF Brackets
  <2>2. BeginSet(c)
    BY <1>7, <2>1 DEF Look, Set, SetDone, Walking, Walked
  <2>3. QED BY <2>2 DEF BeginSet
<1>8. QED BY <1>2, <1>3, <1>4, <1>5, <1>6, <1>7

FullInv == ScopeInv /\ CountInv /\ NestTypes /\ NestInv

LEMMA FullInvInit == Init => FullInv
<1> SUFFICES ASSUME Init PROVE FullInv
  OBVIOUS
<1>1. CountInv
  BY DEF Init, CountInv, Counted
<1>2. NestTypes /\ Len(nest) = 0
  BY DEF Init, NestTypes
<1>3. Brackets /\ Layers /\ Innermost
  BY <1>2 DEF Init, Quiet, Brackets, OpenIsInNest, InNestOnce, OuterIsLive, IsOpen,
     Layers, Ground, Innermost
<1>4. QED BY <1>1, <1>2, <1>3, ScopeInvInit DEF FullInv, NestInv

LEMMA FullInvNext == FullInv /\ [Next]_vars => FullInv'
<1> SUFFICES ASSUME FullInv, [Next]_vars PROVE FullInv'
  OBVIOUS
<1>1. ScopeInv' /\ CountInv'
  BY ScopeInvNext, CountInvNext DEF FullInv
<1>2. CASE UNCHANGED vars
  <2>1. NestTypes'
    BY <1>2 DEF vars, hist, FullInv, NestTypes
  <2>2. nested => Brackets' /\ Innermost'
    <3>1. nested => Brackets'
      BY <1>2 DEF vars, flags, hist, FullInv, NestInv, Brackets, OpenIsInNest, InNestOnce,
         OuterIsLive, IsOpen
    <3>2. nested => Innermost'
      BY <1>2 DEF vars, flags, hist, FullInv, NestInv, IsOpen, Innermost, Top,
         Slot, PastFirst, PastSecond, NowEnabled, NowStack, WasEnabled, WasStack
    <3>3. QED BY <3>1, <3>2
  <2>3. nested => Layers'
    BY <1>2 DEF vars, hist, FullInv, NestInv, Layers, Ground, Layer, FoundQuiet, FoundLive,
       HasSaved, LiveEnabled, LiveStack, WasEnabled, WasStack
  <2>4. nested' = nested
    BY <1>2 DEF vars, hist
  <2>5. QED BY <1>1, <2>1, <2>2, <2>3, <2>4 DEF FullInv, NestInv
<1>3. ASSUME NEW c \in Commands,
             \/ Begin(c) \/ Save(c) \/ SaveDone(c) \/ Arm(c) \/ Stream(c)
             \/ Finish(c) \/ Restore(c) \/ Close(c)
             \/ BeginSet(c) \/ Look(c) \/ Set(c) \/ SetDone(c)
      PROVE  FullInv'
  <2>1. ScopeType /\ NestTypes /\ NestInv
    BY DEF FullInv, ScopeInv
  <2>2. NestTypes'
    BY <1>3, <2>1, NestStep
  <2>3. NestInv'
    BY <1>3, <2>1, NestInvNext DEF NestInv
  <2>4. QED BY <1>1, <2>2, <2>3 DEF FullInv
<1>4. QED BY <1>2, <1>3 DEF Next

\* on and off report exactly what they switched unless somebody else wrote
\* those probes meanwhile (probe.rs set_enabled_matching), and streams that
\* open and close like brackets, on the same probes or not, get their setting
\* back and leave every probe quiet (agent.rs ProbeScope): any number of both.
THEOREM CountsAndNesting == Spec => []CountedAndNested
<1>1. FullInv => CountedAndNested
  <2> SUFFICES ASSUME FullInv PROVE CountedAndNested
    OBVIOUS
  <2>1. TypeOK
    BY DEF FullInv, ScopeInv, ScopeType, CountInv, NestTypes, TypeOK, SavedType, BeforeType
  <2>2. UndisturbedCounts
    <3> SUFFICES ASSUME NEW c \in Commands, pc[c] = "done", Kind[c] \in {"on", "off"},
                        c \notin disturbed
                 PROVE  count[c] = turned[c]
      BY DEF UndisturbedCounts
    <3>1. Counted(c) /\ count[c] \in Nat /\ turned[c] \in Nat
      BY DEF FullInv, CountInv
    <3>2. QED BY <3>1 DEF Counted
  <2>3. NestedScopesRestore
    <3> SUFFICES ASSUME nested PROVE /\ nest = <<>> => enabled = Quiet /\ stack = Quiet
                                     /\ nest # <<>> /\ pc[Top] = "live" => Hot(Top)
      BY DEF NestedScopesRestore, Top
    <3>1. Innermost /\ nest \in Seq(Commands) /\ Len(nest) \in Nat
      BY DEF FullInv, NestInv, NestTypes
    <3>2. ASSUME nest = <<>> PROVE enabled = Quiet /\ stack = Quiet
      <4>1. \A p \in Probes : enabled[p] = FALSE /\ stack[p] = FALSE
        BY <3>1, <3>2 DEF Innermost
      <4>2. enabled \in [Probes -> BOOLEAN] /\ stack \in [Probes -> BOOLEAN]
        BY DEF FullInv, ScopeInv, ScopeType
      <4>3. QED BY <4>1, <4>2 DEF Quiet
    <3>3. ASSUME nest # <<>>, pc[Top] = "live" PROVE Hot(Top)
      <4>1. Len(nest) > 0 /\ Top \in Commands
        BY <3>1, <3>3, ElementOf DEF Top
      <4>2. ASSUME NEW p \in Matches(Top) PROVE enabled[p] /\ stack[p] = Wants(Top)
        <5>1. PICK i \in 1 .. Len(Scope[Top]) : Scope[Top][i] = p
          BY <4>1, <4>2, MatchIsSlot
        <5>2. Slot(Top, i)
          BY <3>1, <4>1 DEF Innermost
        <5>3. QED BY <3>3, <5>1, <5>2 DEF Slot, NowEnabled, NowStack
      <4>3. QED BY <4>2 DEF Hot
    <3>4. QED BY <3>2, <3>3
  <2>4. QED BY <2>1, <2>2, <2>3 DEF CountedAndNested
<1>2. Spec => []FullInv
  BY FullInvInit, FullInvNext, PTL DEF Spec
<1>3. QED BY <1>1, <1>2, PTL
=============================================================================
