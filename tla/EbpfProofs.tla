----------------------------- MODULE EbpfProofs -----------------------------
(***************************************************************************)
(* The eBPF helper under any program, symbol table, requests and ring: a   *)
(* command takes its probes with it, a call is counted once and under its  *)
(* own function and thread unless its record was lost, without panics the  *)
(* calls the helper sees are the calls the program made, and what it       *)
(* reports covers what it saw.                                             *)
(***************************************************************************)
EXTENDS Ebpf, FiniteSetTheorems, WellFoundedInduction, TLAPS

\* A command takes its probes with it, however it ends, and so does `stop`
\* (server.rs: every way out of a command's loop is past BpfEngine::detach).
THEOREM ProbesGoWithTheCommand == EbpfSpec => CommandTakesItsProbes
<1> DEFINE Takes ==
      /\ pc \in {"attach", "loop"} /\ pc' \in {"idle", "blind"} => probes' = {}
      /\ pc' \in {"attach", "stopped"} /\ pc # pc' => probes' = {}
<1>1. [EbpfNext]_vars => [Takes]_vars
  <2> SUFFICES ASSUME EbpfNext PROVE Takes
    OBVIOUS
  <2>1. CASE pc' = pc
    BY <2>1
  <2>2. CASE pc' # pc
    <3>1. CASE \E r \in Requests : Begin(r)
      BY <3>1 DEF Begin, Ask, detach, release
    <3>2. CASE \E r \in Requests : Stop(r)
      BY <3>2 DEF Stop, Ask, detach, release
    <3>3. CASE AttachFails
      BY <3>3 DEF AttachFails, detach, release
    <3>4. CASE AttachDone \/ WriteHead
      BY <3>4 DEF AttachDone, WriteHead
    <3>5. CASE StreamStep \/ CollectStep \/ DashboardFrame \/ MonitorFrame
      <4>1. pc = "loop" /\ (Finish \/ pc' = pc)
        BY <3>5 DEF StreamStep, CollectStep, DashboardFrame, MonitorFrame, EndIteration, Again
      <4>2. QED BY <2>2, <4>1 DEF Finish, detach, release
    <3>6. CASE BlindFrame
      BY <2>2, <3>6 DEF BlindFrame
    <3>7. QED BY <2>2, <3>1, <3>2, <3>3, <3>4, <3>5, <3>6
       DEF EbpfNext, Program, Return, Panic, Call, Server, LoopStep, Client, Expire, Stopped,
           EndSession, AttachNext, MonitorIngest, Connect, Leave, Mark, command, vars
  <2>3. QED BY <2>1, <2>2
<1>2. QED BY <1>1, PTL DEF EbpfSpec, CommandTakesItsProbes

-----------------------------------------------------------------------------
(* The invariant.                                                          *)

\* A sequence of whatever it holds.
IsSeq(s) == s \in Seq({s[i] : i \in 1..Len(s)})

\* The helper's forest and calls once it has read all that is in the ring.
Read == ingest(ring)
Attached == pc \in {"attach", "head", "loop"}

IsFrame(r) == r = [ip |-> r.ip, start |-> r.start, hooked |-> r.hooked, kids |-> r.kids]
              /\ r.hooked \in BOOLEAN /\ IsSeq(r.kids)
IsEntry(r) == r = [id |-> r.id, start |-> r.start, kids |-> r.kids] /\ IsSeq(r.kids)

IsFrames(s) == IsSeq(s) /\ \A i \in 1..Len(s) : IsFrame(s[i])
IsStack(fs) == IsSeq(fs) /\ \A i \in 1..Len(fs) : IsEntry(fs[i])

IsStacks(s) == s = [t \in Threads |-> s[t]] /\ \A t \in Threads : IsFrames(s[t])
IsForest(f) == f = [t \in Threads |-> f[t]] /\ \A t \in Threads : IsStack(f[t])
IsAcc(a) == a = [forest |-> a.forest, done |-> a.done] /\ IsForest(a.forest) /\ IsSeq(a.done)
IsRing(batch) == IsSeq(batch) /\ \A i \in 1..Len(batch) :
                   batch[i].tid \in Threads /\ batch[i].kind \in {"enter", "exit"}

Shape ==
  /\ IsStacks(stacks) /\ IsForest(forest) /\ IsRing(ring) /\ IsAcc(Read)
  /\ IsSeq(seen) /\ IsSeq(truth) /\ IsSeq(todo) /\ IsSeq(attached)
  /\ pc # "attach" => todo = <<>>
  /\ enabled \subseteq Ids
  /\ lost \in BOOLEAN /\ broken \in BOOLEAN

\* The uprobe of a function is in place before its uretprobe.
EnterFirst ==
  \A f \in Ids :
    /\ <<f, "exit">> \in probes => <<f, "enter">> \in probes
    /\ \A i \in 1..Len(todo) : todo[i] = <<f, "exit">> =>
         <<f, "enter">> \in probes \/ \E j \in 1..i-1 : todo[j] = <<f, "enter">>

\* Probes are those of what attach was given,
Handed ==
  \A i \in Ids :
    /\ <<i, "enter">> \in probes => i \in ToSet(attached)
    /\ \A k \in 1..Len(todo) : todo[k] = <<i, "enter">> => i \in ToSet(attached)

\* and stay as long as a call waits for its uretprobe.
Placed ==
  \A t \in Threads : \A k \in 1..Len(stacks[t]) :
    stacks[t][k].hooked => ProbesAt(stacks[t][k].ip, "exit") # {}

\* The program's stack under the names the helper has, hooked being the calls it
\* can name.
ToldIn(ids, s) == {i \in 1..Len(s) : Told(ids, s[i])}
Shown(ids, s) ==
  [i \in 1..Len(s) |-> [id |-> NameOf(ids, s[i].ip), start |-> s[i].start,
                         hooked |-> Told(ids, s[i]), kids |-> s[i].kids]]

Hooked(s) == {i \in 1..Len(s) : s[i].hooked}

\* The helper has a frame for each such call that runs, in their order, among
\* frames of calls that are gone.
Embeds(s, fs) ==
  \E e \in [Hooked(s) -> 1..Len(fs)] :
    /\ \A i, j \in Hooked(s) : i < j => e[i] < e[j]
    /\ \A i \in Hooked(s) : fs[e[i]].id = s[i].id

\* The helper's frames are these calls, with what each has
\* called so far.
Mirrors(s, fs) ==
  \E e \in [1..Len(fs) -> Hooked(s)] :
    /\ \A i, j \in 1..Len(fs) : i < j => e[i] < e[j]
    /\ \A j \in Hooked(s) : \E i \in 1..Len(fs) : e[i] = j
    /\ \A i \in 1..Len(fs) : /\ fs[i].id = s[e[i]].id /\ fs[i].start = s[e[i]].start
                             /\ fs[i].kids = s[e[i]].kids

\* Read or still in the ring.
AllSeen == seen \o Read.done

\* Each return once, under its function and thread, those in the ring included;
Counts ==
  /\ Len(AllSeen) = Len(truth)
  /\ \A i \in 1..Len(truth) : AllSeen[i].tid = truth[i].tid /\ AllSeen[i].id = truth[i].id
  /\ Len(Read.done) = Unread
  /\ \A t \in Threads : Embeds(Shown(attached, stacks[t]), Read.forest[t])

\* the calls of the program themselves.
Agrees ==
  /\ AllSeen = truth
  /\ \A t \in Threads : Mirrors(Shown(attached, stacks[t]), Read.forest[t])

Faithful == Attached /\ ~lost /\ OneName => Counts /\ (~broken => Agrees)

EbpfInv == Shape /\ EnterFirst /\ Handed /\ Placed /\ Faithful

-----------------------------------------------------------------------------
(* Sequences and finite sets.                                              *)

LEMMA SeqLen ==
  ASSUME NEW s, IsSeq(s)
  PROVE  Len(s) \in Nat /\ s = [i \in 1..Len(s) |-> s[i]]
BY DEF IsSeq

LEMMA SeqIs ==
  ASSUME NEW n \in Nat, NEW s, DOMAIN s = 1..n, s = [i \in 1..n |-> s[i]]
  PROVE  IsSeq(s) /\ Len(s) = n
<1> DEFINE S == {s[i] : i \in 1..n}
<1>1. s \in [1..n -> S]
  OBVIOUS
<1>2. s \in Seq(S) /\ Len(s) = n
  <2> HIDE DEF S
  <2> QED BY <1>1
<1> QED BY <1>2 DEF IsSeq, S

LEMMA IsSeqOf ==
  ASSUME NEW S, NEW s \in Seq(S)
  PROVE  IsSeq(s)
<1>1. Len(s) \in Nat /\ DOMAIN s = 1..Len(s) /\ s = [i \in 1..Len(s) |-> s[i]]
  OBVIOUS
<1> QED BY <1>1, SeqIs

LEMMA NothingIsSeq ==
  ASSUME NEW s, s = <<>>
  PROVE  IsSeq(s)
<1> DEFINE T == {s[i] : i \in 1..Len(s)}
<1>1. s \in Seq(T)
  <2> HIDE DEF T
  <2> QED OBVIOUS
<1> QED BY <1>1 DEF IsSeq

LEMMA AppendSeq ==
  ASSUME NEW s, IsSeq(s), NEW x
  PROVE  /\ IsSeq(Append(s, x)) /\ Len(Append(s, x)) = Len(s) + 1 /\ Len(s) \in Nat
         /\ \A i \in 1..Len(s) : Append(s, x)[i] = s[i]
         /\ Append(s, x)[Len(s) + 1] = x
<1> DEFINE S == {s[i] : i \in 1..Len(s)}
           T == S \cup {x}
<1>1. s \in Seq(S) /\ S \subseteq T /\ x \in T
  BY DEF IsSeq
<1> HIDE DEF S, T
<1>2. s \in Seq(T) /\ Len(s) \in Nat
  BY <1>1
<1>3. Append(s, x) \in Seq(T)
  BY <1>1, <1>2
<1>4. IsSeq(Append(s, x))
  BY <1>3, IsSeqOf
<1>5. /\ Len(Append(s, x)) = Len(s) + 1
      /\ \A i \in 1..Len(s) : Append(s, x)[i] = s[i]
      /\ Append(s, x)[Len(s) + 1] = x
  BY <1>1, <1>2
<1> QED BY <1>2, <1>4, <1>5

LEMMA PrefixSeq ==
  ASSUME NEW s, IsSeq(s), NEW n \in 0..Len(s)
  PROVE  /\ IsSeq(SubSeq(s, 1, n)) /\ Len(SubSeq(s, 1, n)) = n
         /\ \A i \in 1..n : SubSeq(s, 1, n)[i] = s[i]
<1> DEFINE S == {s[i] : i \in 1..Len(s)}
<1>1. s \in Seq(S)
  BY DEF IsSeq
<1> HIDE DEF S
<1>2. n \in Nat /\ n <= Len(s)
  BY <1>1
<1>3. SubSeq(s, 1, n) \in Seq(S)
  BY <1>1, <1>2
<1>4. IsSeq(SubSeq(s, 1, n))
  BY <1>3, IsSeqOf
<1>5. Len(SubSeq(s, 1, n)) = n /\ \A i \in 1..n : SubSeq(s, 1, n)[i] = s[i]
  BY <1>1, <1>2
<1> QED BY <1>4, <1>5

LEMMA FrontSeq ==
  ASSUME NEW s, IsSeq(s), s # <<>>
  PROVE  /\ IsSeq(Front(s)) /\ Len(Front(s)) = Len(s) - 1 /\ Len(s) \in Nat \ {0}
         /\ \A i \in 1..Len(s)-1 : Front(s)[i] = s[i]
<1>1. Len(s) \in Nat \ {0}
  BY DEF IsSeq
<1> DEFINE n == Len(s) - 1
<1>2. n \in 0..Len(s)
  BY <1>1
<1> HIDE DEF n
<1>3. /\ IsSeq(SubSeq(s, 1, n)) /\ Len(SubSeq(s, 1, n)) = n
      /\ \A i \in 1..n : SubSeq(s, 1, n)[i] = s[i]
  BY <1>2, PrefixSeq
<1> QED BY <1>1, <1>3 DEF Front, n

LEMMA UpdateSeq ==
  ASSUME NEW s, IsSeq(s), NEW i \in 1..Len(s), NEW x
  PROVE  LET r == [s EXCEPT ![i] = x]
         IN  /\ IsSeq(r) /\ Len(r) = Len(s) /\ r[i] = x
             /\ \A j \in 1..Len(s) : j # i => r[j] = s[j]
<1> DEFINE r == [s EXCEPT ![i] = x]
<1>1. Len(s) \in Nat /\ s = [j \in 1..Len(s) |-> s[j]]
  BY SeqLen
<1>2. r = [j \in 1..Len(s) |-> IF j = i THEN x ELSE s[j]]
  BY <1>1
<1> HIDE DEF r
<1>3. DOMAIN r = 1..Len(s) /\ r = [j \in 1..Len(s) |-> r[j]]
  BY <1>2
<1>4. IsSeq(r) /\ Len(r) = Len(s)
  BY <1>1, <1>3, SeqIs
<1>5. r[i] = x /\ \A j \in 1..Len(s) : j # i => r[j] = s[j]
  BY <1>2
<1> QED BY <1>4, <1>5 DEF r

LEMMA ConcatSeq ==
  ASSUME NEW s, IsSeq(s), NEW u, IsSeq(u)
  PROVE  /\ IsSeq(s \o u) /\ Len(s \o u) = Len(s) + Len(u)
         /\ s \o <<>> = s
         /\ \A x : s \o Append(u, x) = Append(s \o u, x)
<1> DEFINE S == {s[i] : i \in 1..Len(s)} \cup {u[i] : i \in 1..Len(u)}
<1>1. s \in Seq(S) /\ u \in Seq(S)
  <2>1. /\ s \in Seq({s[i] : i \in 1..Len(s)}) /\ {s[i] : i \in 1..Len(s)} \subseteq S
        /\ u \in Seq({u[i] : i \in 1..Len(u)}) /\ {u[i] : i \in 1..Len(u)} \subseteq S
    BY DEF IsSeq
  <2>2. \A A, B, w : A \subseteq B /\ w \in Seq(A) => w \in Seq(B)
    OBVIOUS
  <2> QED BY <2>1, <2>2
<1> HIDE DEF S
<1>2. s \o u \in Seq(S) /\ Len(s \o u) = Len(s) + Len(u) /\ s \o <<>> = s
  BY <1>1
<1>3. ASSUME NEW x PROVE s \o Append(u, x) = Append(s \o u, x)
  <2> DEFINE T == S \cup {x}
  <2>1. s \in Seq(T) /\ u \in Seq(T) /\ x \in T
    BY <1>1
  <2> HIDE DEF T
  <2>2. s \o Append(u, x) = Append(s \o u, x)
    BY <2>1
  <2> QED BY <2>2
<1> QED BY <1>2, <1>3, IsSeqOf

\* A non-empty set of naturals has a least element.
LEMMA Least ==
  ASSUME NEW T, T \subseteq Nat, T # {}
  PROVE  \E x \in T : \A y \in T : x <= y
<1>1. PICK x \in T : \A y \in T : ~ (<<y, x>> \in OpToRel(<, Nat))
  BY NatLessThanWellFounded, WFMin
<1>2. \A y \in T : ~ (y < x)
  BY <1>1 DEF OpToRel
<1> QED BY <1>2

LEMMA MaxIs ==
  ASSUME NEW n \in Nat, NEW T, T \subseteq 1..n, T # {}
  PROVE  Max(T) \in T /\ \A y \in T : y <= Max(T)
<1> DEFINE above == {k \in Nat : \E x \in T : k = n - x}
<1>0. \A x \in T : x \in Nat /\ x <= n /\ n - x \in Nat
  OBVIOUS
<1>1. above \subseteq Nat /\ above # {} /\ \A x \in T : n - x \in above
  BY <1>0
<1>2. PICK k \in above : \A m \in above : k <= m
  <2> HIDE DEF above
  <2> QED BY <1>1, Least
<1>3. PICK x \in T : k = n - x
  OBVIOUS
<1>4. \A y \in T : x >= y
  <2> SUFFICES ASSUME NEW y \in T PROVE x >= y
    OBVIOUS
  <2>1. n - x <= n - y
    BY <1>1, <1>2, <1>3
  <2> QED BY <1>0, <2>1
<1>5. \E z \in T : \A y \in T : z >= y
  BY <1>4
<1>6. Max(T) \in T /\ \A y \in T : Max(T) >= y
  BY <1>5 DEF Max
<1> QED BY <1>6

-----------------------------------------------------------------------------
(* Reading the ring one record after the other.                            *)

Runs(map, f, start, batch) ==
  /\ f[0] = start
  /\ \A k \in 1..Len(batch) : f[k] = TakeIn(map, f[k - 1], batch[k])

RunsTo(map, f, start, batch, n) ==
  /\ f = [k \in 0..n |-> f[k]] /\ f[0] = start
  /\ \A k \in 1..n : f[k] = TakeIn(map, f[k - 1], batch[k])

\* One run there is for each beginning and batch,
LEMMA RunsOnce ==
  ASSUME NEW map, NEW start, NEW batch, Len(batch) \in Nat, NEW n \in 0..Len(batch),
         NEW f, Runs(map, f, start, batch), NEW g, Runs(map, g, start, batch)
  PROVE  f[n] = g[n]
<1> DEFINE T == {k \in 0..Len(batch) : f[k] # g[k]}
<1>1. SUFFICES ASSUME T # {} PROVE FALSE
  OBVIOUS
<1>2. PICK k \in T : \A m \in T : k <= m
  <2>1. T \subseteq Nat
    OBVIOUS
  <2> HIDE DEF T
  <2> QED BY <1>1, <2>1, Least
<1>3. k # 0
  BY DEF Runs
<1>4. k \in 1..Len(batch) /\ k - 1 \in 0..Len(batch) /\ ~ (k <= k - 1)
  BY <1>3
<1>5. f[k - 1] = g[k - 1]
  BY <1>2, <1>4
<1>6. f[k] = g[k]
  BY <1>4, <1>5 DEF Runs
<1> QED BY <1>6

\* and it is the recursive function of Ingested.
LEMMA RunsEach ==
  ASSUME NEW map, NEW start, NEW batch, Len(batch) \in Nat, NEW n \in 0..Len(batch)
  PROVE  \E f : RunsTo(map, f, start, batch, n)
<1> DEFINE Upto(m) == \E f : RunsTo(map, f, start, batch, m)
           T == {m \in 0..Len(batch) : ~Upto(m)}
<1>1. SUFFICES ASSUME T # {} PROVE FALSE
  OBVIOUS
<1>2. PICK m \in T : \A l \in T : m <= l
  <2>1. T \subseteq Nat
    OBVIOUS
  <2> HIDE DEF T
  <2> QED BY <1>1, <2>1, Least
<1>3. m # 0
  <2> DEFINE f == [k \in 0..0 |-> start]
  <2>1. f = [k \in 0..0 |-> f[k]] /\ f[0] = start
    OBVIOUS
  <2>2. \A k \in 1..0 : f[k] = TakeIn(map, f[k - 1], batch[k])
    OBVIOUS
  <2>3. Upto(0)
    <3> HIDE DEF f
    <3> QED BY <2>1, <2>2 DEF RunsTo
  <2> QED BY <2>3
<1>4. m \in 1..Len(batch) /\ m - 1 \in 0..Len(batch) /\ ~ (m <= m - 1)
  BY <1>3
<1>5. Upto(m - 1)
  BY <1>2, <1>4
<1>6. PICK g : /\ g = [k \in 0..m - 1 |-> g[k]] /\ g[0] = start
               /\ \A k \in 1..m - 1 : g[k] = TakeIn(map, g[k - 1], batch[k])
  BY <1>5 DEF RunsTo
<1> DEFINE f == [k \in 0..m |-> IF k = m THEN TakeIn(map, g[m - 1], batch[m]) ELSE g[k]]
<1>7. f = [k \in 0..m |-> f[k]] /\ f[0] = start
  BY <1>4, <1>6
<1>8. ASSUME NEW k \in 1..m PROVE f[k] = TakeIn(map, f[k - 1], batch[k])
  <2>1. k - 1 \in 0..m /\ k - 1 # m /\ f[k - 1] = g[k - 1]
    BY <1>4
  <2>2. CASE k = m
    BY <1>4, <2>1, <2>2
  <2>3. CASE k # m
    <3>1. k \in 1..m - 1 /\ f[k] = g[k]
      BY <1>4, <2>3
    <3> QED BY <1>6, <2>1, <3>1
  <2> QED BY <2>2, <2>3
<1>9. Upto(m)
  <2> HIDE DEF f
  <2> QED BY <1>7, <1>8 DEF RunsTo
<1> QED BY <1>9

LEMMA IngestedRuns ==
  ASSUME NEW map, NEW start, NEW batch, Len(batch) \in Nat
  PROVE  \E f : Runs(map, f, start, batch) /\ Ingested(map, start, batch) = f[Len(batch)]
<1> DEFINE n == Len(batch)
           F(f) == [k \in 0..n |-> IF k = 0 THEN start
                     ELSE CHOOSE r \in {TakeIn(map, acc, batch[k]) : acc \in {f[k - 1]}} : TRUE]
           h == CHOOSE f : f = F(f)
<1>1. \A f, k : (CHOOSE r \in {TakeIn(map, acc, batch[k]) : acc \in {f[k - 1]}} : TRUE)
                  = TakeIn(map, f[k - 1], batch[k])
  <2> TAKE f, k
  <2>1. {TakeIn(map, acc, batch[k]) : acc \in {f[k - 1]}} = {TakeIn(map, f[k - 1], batch[k])}
    OBVIOUS
  <2>2. \A x : (CHOOSE r \in {x} : TRUE) = x
    OBVIOUS
  <2> QED BY <2>1, <2>2
<1>2. PICK g : /\ g = [k \in 0..n |-> g[k]] /\ g[0] = start
               /\ \A k \in 1..n : g[k] = TakeIn(map, g[k - 1], batch[k])
  <2>1. n \in 0..Len(batch)
    OBVIOUS
  <2>2. \E g : RunsTo(map, g, start, batch, n)
    BY <2>1, RunsEach
  <2> QED BY <2>2 DEF RunsTo
<1>3. g = F(g)
  BY <1>1, <1>2
<1>4. h = F(h)
  <2> HIDE DEF F
  <2> QED BY <1>3
<1>5. Runs(map, h, start, batch)
  <2>1. h[0] = start
    <3> HIDE DEF h
    <3>1. 0 \in 0..n
      OBVIOUS
    <3> QED BY <1>4, <3>1
  <2>2. ASSUME NEW k \in 1..n PROVE h[k] = TakeIn(map, h[k - 1], batch[k])
    <3> HIDE DEF h
    <3>1. k \in 0..n /\ k # 0
      OBVIOUS
    <3> QED BY <1>1, <1>4, <3>1
  <2> HIDE DEF h
  <2> QED BY <2>1, <2>2 DEF Runs
<1>6. Ingested(map, start, batch) = h[n]
  BY DEF Ingested
<1> HIDE DEF h
<1> QED BY <1>5, <1>6

\* Nothing read changes nothing; a record more is taken in last.
LEMMA IngestNone ==
  ASSUME NEW map, NEW start, NEW batch, batch = <<>>
  PROVE  Ingested(map, start, batch) = start
<1>1. Len(batch) = 0
  OBVIOUS
<1>2. PICK f : Runs(map, f, start, batch) /\ Ingested(map, start, batch) = f[Len(batch)]
  BY <1>1, IngestedRuns
<1> QED BY <1>1, <1>2 DEF Runs

LEMMA IngestAppend ==
  ASSUME NEW map, NEW start, NEW batch, IsSeq(batch), NEW ev
  PROVE  Ingested(map, start, Append(batch, ev)) = TakeIn(map, Ingested(map, start, batch), ev)
<1> DEFINE more == Append(batch, ev)
           n == Len(batch)
<1>1. /\ n \in Nat /\ Len(more) = n + 1 /\ more[n + 1] = ev
      /\ \A k \in 1..n : more[k] = batch[k]
  BY AppendSeq
<1> HIDE DEF more
<1>2. PICK f : Runs(map, f, start, batch) /\ Ingested(map, start, batch) = f[n]
  BY <1>1, IngestedRuns
<1>3. PICK g : Runs(map, g, start, more) /\ Ingested(map, start, more) = g[n + 1]
  BY <1>1, IngestedRuns
<1>4. Runs(map, g, start, batch)
  BY <1>1, <1>3 DEF Runs
<1>5. n \in 0..Len(batch)
  BY <1>1
<1>6. g[n] = f[n]
  BY <1>1, <1>2, <1>4, <1>5, RunsOnce
<1>7. g[n + 1] = TakeIn(map, g[n], ev)
  <2>1. n + 1 \in 1..Len(more) /\ (n + 1) - 1 = n
    BY <1>1
  <2> QED BY <1>1, <1>3, <2>1 DEF Runs
<1> QED BY <1>2, <1>3, <1>6, <1>7 DEF more

-----------------------------------------------------------------------------
(* What one record does to the forest.                                     *)

LEMMA OneSeq ==
  ASSUME NEW x
  PROVE  IsSeq(<<x>>) /\ Len(<<x>>) = 1 /\ <<x>>[1] = x
<1> DEFINE s == <<x>>
<1>1. s \in Seq({x}) /\ Len(s) = 1 /\ s[1] = x
  OBVIOUS
<1> HIDE DEF s
<1>2. IsSeq(s)
  BY <1>1, IsSeqOf
<1> QED BY <1>1, <1>2 DEF s

LEMMA ConcatOne ==
  ASSUME NEW s, IsSeq(s), NEW x
  PROVE  s \o <<x>> = Append(s, x)
<1> DEFINE T == {s[i] : i \in 1..Len(s)} \cup {x}
<1>1. s \in Seq(T) /\ x \in T
  <2>1. /\ s \in Seq({s[i] : i \in 1..Len(s)}) /\ {s[i] : i \in 1..Len(s)} \subseteq T
    BY DEF IsSeq
  <2>2. \A A, B, w : A \subseteq B /\ w \in Seq(A) => w \in Seq(B)
    OBVIOUS
  <2> QED BY <2>1, <2>2
<1> HIDE DEF T
<1> QED BY <1>1

\* A call more below the topmost of these.
Adopt(s, i, node) == [s EXCEPT ![i].kids = Append(@, node)]

LEMMA EntryKids ==
  ASSUME NEW r, IsEntry(r), NEW node
  PROVE  LET q == [r EXCEPT !.kids = Append(r.kids, node)]
         IN  /\ IsEntry(q) /\ q.id = r.id /\ q.start = r.start
             /\ q.kids = Append(r.kids, node)
<1> DEFINE ks == Append(r.kids, node)
           q == [r EXCEPT !.kids = ks]
<1>1. IsSeq(ks)
  BY AppendSeq DEF IsEntry
<1> HIDE DEF ks
<1>2. q = [id |-> r.id, start |-> r.start, kids |-> ks]
  BY DEF IsEntry
<1> HIDE DEF q
<1>3. q.id = r.id /\ q.start = r.start /\ q.kids = ks
  BY <1>2
<1>4. IsEntry(q)
  BY <1>1, <1>2, <1>3 DEF IsEntry
<1> QED BY <1>3, <1>4 DEF q, ks

LEMMA AdoptEntry ==
  ASSUME NEW s, IsStack(s), NEW i \in 1..Len(s), NEW node
  PROVE  LET r == Adopt(s, i, node)
         IN  /\ IsStack(r) /\ Len(r) = Len(s)
             /\ \A j \in 1..Len(s) : r[j].id = s[j].id /\ r[j].start = s[j].start
             /\ \A j \in 1..Len(s) : j # i => r[j].kids = s[j].kids
             /\ r[i].kids = Append(s[i].kids, node)
<1> DEFINE q == [s[i] EXCEPT !.kids = Append(s[i].kids, node)]
           r == Adopt(s, i, node)
<1>1. /\ IsEntry(q) /\ q.id = s[i].id /\ q.start = s[i].start
      /\ q.kids = Append(s[i].kids, node)
  BY EntryKids DEF IsStack
<1>2. r = [s EXCEPT ![i] = q]
  BY DEF Adopt
<1> HIDE DEF q
<1>3. /\ IsSeq(r) /\ Len(r) = Len(s) /\ r[i] = q
      /\ \A j \in 1..Len(s) : j # i => r[j] = s[j]
  <2>1. IsSeq(s)
    BY DEF IsStack
  <2>2. LET u == [s EXCEPT ![i] = q]
        IN  /\ IsSeq(u) /\ Len(u) = Len(s) /\ u[i] = q
            /\ \A j \in 1..Len(s) : j # i => u[j] = s[j]
    BY <2>1, UpdateSeq
  <2> HIDE DEF r
  <2> QED BY <1>2, <2>2
<1> HIDE DEF r
<1>4. IsStack(r)
  BY <1>1, <1>3 DEF IsStack
<1> QED BY <1>1, <1>3, <1>4 DEF r

\* A return drops the topmost frame of its function with all above it, if
\* there is one, and everything otherwise.
Same(fs, id) == {i \in 1..Len(fs) : fs[i].id = id}

LEMMA ExitMiss ==
  ASSUME NEW fs, NEW t, NEW id, Same(fs, id) = {}
  PROVE  Exit(fs, t, id) = [stack |-> <<>>, done |-> <<>>]
BY DEF Exit, Same

LEMMA ExitHit ==
  ASSUME NEW fs, IsStack(fs), NEW t, NEW id, Same(fs, id) # {}
  PROVE  LET i == Max(Same(fs, id))
             r == Exit(fs, t, id)
             node == Node(t, id, fs[i], i = 1)
         IN  /\ i \in Same(fs, id) /\ \A j \in Same(fs, id) : j <= i
             /\ r.done = <<node>>
             /\ IsStack(r.stack) /\ Len(r.stack) = i - 1
             /\ \A j \in 1..i - 1 : r.stack[j].id = fs[j].id /\ r.stack[j].start = fs[j].start
             /\ \A j \in 1..i - 1 : r.stack[j].kids =
                                      IF j = i - 1 THEN Append(fs[j].kids, node) ELSE fs[j].kids
<1> DEFINE i == Max(Same(fs, id))
           r == Exit(fs, t, id)
           node == Node(t, id, fs[i], i = 1)
           below == SubSeq(fs, 1, i - 1)
<1>1. i \in Same(fs, id) /\ \A j \in Same(fs, id) : j <= i
  <2>1. Len(fs) \in Nat
    BY SeqLen DEF IsStack
  <2>2. Same(fs, id) \subseteq 1..Len(fs)
    BY DEF Same
  <2> QED BY <2>1, <2>2, MaxIs
<1>2. /\ r.done = <<node>>
      /\ r.stack = IF i = 1 THEN <<>> ELSE Adopt(below, i - 1, node)
  BY DEF Exit, Same, Adopt
<1>3. i \in 1..Len(fs) /\ Len(fs) \in Nat
  BY <1>1, SeqLen DEF Same, IsStack
<1> HIDE DEF i, r, node
<1>4. CASE i = 1
  <2>1. IsSeq(r.stack) /\ Len(r.stack) = 0
    BY <1>2, <1>4, NothingIsSeq
  <2>2. IsStack(r.stack) /\ Len(r.stack) = i - 1 /\ 1..i - 1 = {}
    BY <1>4, <2>1 DEF IsStack
  <2> QED BY <1>1, <1>2, <2>2 DEF i, r, node
<1>5. CASE i # 1
  <2>1. i - 1 \in 0..Len(fs) /\ i - 1 \in 1..i - 1
    BY <1>3, <1>5
  <2>2. /\ IsSeq(below) /\ Len(below) = i - 1
        /\ \A j \in 1..i - 1 : below[j] = fs[j] /\ j \in 1..Len(fs)
    BY <1>3, <2>1, PrefixSeq DEF IsStack
  <2>3. IsStack(below)
    BY <2>2 DEF IsStack
  <2> HIDE DEF below
  <2>4. LET a == Adopt(below, i - 1, node)
        IN  /\ IsStack(a) /\ Len(a) = Len(below)
            /\ \A j \in 1..Len(below) : a[j].id = below[j].id /\ a[j].start = below[j].start
            /\ \A j \in 1..Len(below) : j # i - 1 => a[j].kids = below[j].kids
            /\ a[i - 1].kids = Append(below[i - 1].kids, node)
    BY <2>1, <2>2, <2>3, AdoptEntry
  <2>5. /\ IsStack(r.stack) /\ Len(r.stack) = i - 1
        /\ \A j \in 1..i - 1 : r.stack[j].id = fs[j].id /\ r.stack[j].start = fs[j].start
        /\ \A j \in 1..i - 1 : r.stack[j].kids =
             IF j = i - 1 THEN Append(fs[j].kids, node) ELSE fs[j].kids
    BY <1>2, <1>5, <2>2, <2>4
  <2> QED BY <1>1, <1>2, <2>5 DEF i, r, node
<1> QED BY <1>4, <1>5
LEMMA TakeEnter ==
  ASSUME NEW acc, IsAcc(acc), NEW ev, ev.kind = "enter", NEW t \in Threads, ev.tid = t,
         NEW map, ev.ip \in DOMAIN map, NEW id, id = map[ev.ip]
  PROVE  LET r == TakeIn(map, acc, ev)
             entry == [id |-> id, start |-> ev.start, kids |-> <<>>]
         IN  /\ IsAcc(r) /\ r.done = acc.done
             /\ r.forest[t] = Append(acc.forest[t], entry)
             /\ \A u \in Threads \ {t} : r.forest[u] = acc.forest[u]
<1> DEFINE r == TakeIn(map, acc, ev)
           entry == [id |-> id, start |-> ev.start, kids |-> <<>>]
           stack == Append(acc.forest[t], entry)
           f == [acc.forest EXCEPT ![t] = stack]
<1>1. IsEntry(entry)
  BY NothingIsSeq DEF IsEntry
<1>2. IsStack(acc.forest[t])
  BY DEF IsAcc, IsForest
<1>3. IsStack(stack)
  <2>1. /\ IsSeq(stack) /\ Len(stack) = Len(acc.forest[t]) + 1 /\ Len(acc.forest[t]) \in Nat
        /\ \A i \in 1..Len(acc.forest[t]) : stack[i] = acc.forest[t][i]
        /\ stack[Len(acc.forest[t]) + 1] = entry
    BY <1>2, AppendSeq DEF IsStack
  <2> HIDE DEF stack, entry
  <2>2. ASSUME NEW i \in 1..Len(stack) PROVE IsEntry(stack[i])
    <3>1. CASE i = Len(acc.forest[t]) + 1
      BY <1>1, <2>1, <3>1
    <3>2. CASE i # Len(acc.forest[t]) + 1
      <4>1. i \in 1..Len(acc.forest[t])
        BY <2>1, <3>2
      <4> QED BY <1>2, <2>1, <4>1 DEF IsStack
    <3> QED BY <3>1, <3>2
  <2> QED BY <2>1, <2>2 DEF IsStack
<1>4. r = [acc EXCEPT !.forest = f]
  BY DEF TakeIn
<1> HIDE DEF stack, r
<1>5. r = [forest |-> f, done |-> acc.done]
  <2> HIDE DEF f
  <2> QED BY <1>4 DEF IsAcc
<1>6. /\ f = [u \in Threads |-> f[u]] /\ f[t] = stack
      /\ \A u \in Threads \ {t} : f[u] = acc.forest[u]
  <2>1. acc.forest = [u \in Threads |-> acc.forest[u]]
    BY DEF IsAcc, IsForest
  <2> QED BY <2>1
<1> HIDE DEF f
<1>7. IsForest(f)
  BY <1>3, <1>6 DEF IsForest, IsAcc
<1>8. IsAcc(r) /\ r.done = acc.done /\ r.forest = f
  BY <1>5, <1>7 DEF IsAcc
<1> QED BY <1>6, <1>8 DEF r, stack, entry

LEMMA TakeExit ==
  ASSUME NEW acc, IsAcc(acc), NEW ev, ev.kind = "exit", NEW t \in Threads, ev.tid = t,
         NEW map, ev.ip \in DOMAIN map, NEW id, id = map[ev.ip]
  PROVE  LET r == TakeIn(map, acc, ev)
             x == Exit(acc.forest[t], t, id)
         IN  /\ IsAcc(r) /\ \A n : x.done = <<n>> => r.done = Append(acc.done, n)
             /\ r.forest[t] = x.stack
             /\ \A u \in Threads \ {t} : r.forest[u] = acc.forest[u]
<1> DEFINE r == TakeIn(map, acc, ev)
           x == Exit(acc.forest[t], t, id)
           f == [acc.forest EXCEPT ![t] = x.stack]
           d == acc.done \o x.done
<1>1. IsStack(acc.forest[t])
  BY DEF IsAcc, IsForest
<1>2. IsStack(x.stack) /\ IsSeq(x.done)
  <2>1. CASE Same(acc.forest[t], id) = {}
    <3>1. x.stack = <<>> /\ x.done = <<>>
      BY <2>1, ExitMiss
    <3> HIDE DEF x
    <3>2. IsSeq(x.stack) /\ IsSeq(x.done) /\ 1..Len(x.stack) = {}
      BY <3>1, NothingIsSeq
    <3> QED BY <3>2 DEF IsStack
  <2>2. CASE Same(acc.forest[t], id) # {}
    <3> DEFINE i == Max(Same(acc.forest[t], id))
               node == Node(t, id, acc.forest[t][i], i = 1)
    <3>1. IsStack(x.stack) /\ x.done = <<node>>
      BY <1>1, <2>2, ExitHit
    <3> HIDE DEF x, node
    <3> QED BY <3>1, OneSeq
  <2> QED BY <2>1, <2>2
<1>3. IsSeq(d)
  <2> HIDE DEF x
  <2> QED BY <1>2, ConcatSeq DEF IsAcc
<1>4. r = [acc EXCEPT !.forest = f, !.done = d]
  BY DEF TakeIn
<1> HIDE DEF x, r, d
<1>5. r = [forest |-> f, done |-> d]
  <2> HIDE DEF f
  <2> QED BY <1>4 DEF IsAcc
<1>6. /\ f = [u \in Threads |-> f[u]] /\ f[t] = x.stack
      /\ \A u \in Threads \ {t} : f[u] = acc.forest[u]
  <2>1. acc.forest = [u \in Threads |-> acc.forest[u]]
    BY DEF IsAcc, IsForest
  <2> QED BY <2>1
<1> HIDE DEF f
<1>7. IsForest(f)
  BY <1>2, <1>6 DEF IsForest, IsAcc
<1>8. IsAcc(r) /\ r.done = d /\ r.forest = f
  BY <1>3, <1>5, <1>7 DEF IsAcc
<1>9. ASSUME NEW n, x.done = <<n>> PROVE d = Append(acc.done, n)
  BY <1>9, ConcatOne DEF IsAcc, d
<1> QED BY <1>6, <1>8, <1>9 DEF r, x

\* A record at an address the helper does not know is passed over.
LEMMA TakeOther ==
  ASSUME NEW map, NEW acc, NEW ev, ev.ip \notin DOMAIN map
  PROVE  TakeIn(map, acc, ev) = acc
BY DEF TakeIn

\* A ring taken in is again a forest with calls that are over.
LEMMA ReadShape ==
  ASSUME NEW map, NEW start, IsAcc(start), NEW batch, IsRing(batch)
  PROVE  IsAcc(Ingested(map, start, batch))
<1>1. Len(batch) \in Nat
  BY SeqLen DEF IsRing
<1>2. PICK f : Runs(map, f, start, batch) /\ Ingested(map, start, batch) = f[Len(batch)]
  BY <1>1, IngestedRuns
<1> DEFINE T == {k \in 0..Len(batch) : ~IsAcc(f[k])}
<1>3. T = {}
  <2> SUFFICES ASSUME T # {} PROVE FALSE
    OBVIOUS
  <2>1. PICK k \in T : \A m \in T : k <= m
    <3>1. T \subseteq Nat
      OBVIOUS
    <3> HIDE DEF T
    <3> QED BY <3>1, Least
  <2>2. k # 0
    BY <1>2 DEF Runs
  <2>3. k \in 1..Len(batch) /\ k - 1 \in 0..Len(batch) /\ ~ (k <= k - 1)
    BY <2>2
  <2>4. IsAcc(f[k - 1])
    BY <2>1, <2>3
  <2>5. f[k] = TakeIn(map, f[k - 1], batch[k])
    BY <1>2, <2>3 DEF Runs
  <2>6. batch[k].tid \in Threads /\ batch[k].kind \in {"enter", "exit"}
    BY <2>3 DEF IsRing
  <2>7. PICK acc, ev : acc = f[k - 1] /\ ev = batch[k]
    OBVIOUS
  <2>8. IsAcc(TakeIn(map, acc, ev))
    <3>1. CASE ev.ip \notin DOMAIN map
      BY <2>4, <2>7, <3>1, TakeOther
    <3>2. CASE ev.ip \in DOMAIN map /\ ev.kind = "enter"
      <4>1. PICK id : id = map[ev.ip]
        OBVIOUS
      <4> QED BY <2>4, <2>6, <2>7, <3>2, <4>1, TakeEnter
    <3>3. CASE ev.ip \in DOMAIN map /\ ev.kind = "exit"
      <4>1. PICK id : id = map[ev.ip]
        OBVIOUS
      <4> QED BY <2>4, <2>6, <2>7, <3>3, <4>1, TakeExit
    <3> QED BY <2>6, <2>7, <3>1, <3>2, <3>3
  <2> QED BY <2>5, <2>7, <2>8
<1>4. Len(batch) \in 0..Len(batch)
  BY <1>1
<1> QED BY <1>2, <1>3, <1>4

-----------------------------------------------------------------------------
(* The program's stack and the helper's.                                   *)

\* Calls that are gone take nothing away from the others.
LEMMA EmbedsStill ==
  ASSUME NEW s, NEW fs, Embeds(s, fs), NEW s2, NEW gs, Len(fs) \in Nat, Len(gs) \in Nat,
         Hooked(s2) \subseteq Hooked(s), \A i \in Hooked(s2) : s2[i].id = s[i].id,
         Len(fs) <= Len(gs), \A i \in 1..Len(fs) : gs[i].id = fs[i].id
  PROVE  Embeds(s2, gs)
<1>1. PICK e \in [Hooked(s) -> 1..Len(fs)] :
             /\ \A i, j \in Hooked(s) : i < j => e[i] < e[j]
             /\ \A i \in Hooked(s) : fs[e[i]].id = s[i].id
  BY DEF Embeds
<1> DEFINE g == [i \in Hooked(s2) |-> e[i]]
<1>2. g \in [Hooked(s2) -> 1..Len(gs)]
  <2>1. \A i \in Hooked(s2) : e[i] \in 1..Len(gs)
    BY <1>1
  <2> QED BY <2>1
<1>3. \A i \in Hooked(s2) : g[i] = e[i] /\ i \in Hooked(s) /\ e[i] \in 1..Len(fs)
  BY <1>1
<1> HIDE DEF g
<1>4. \A i, j \in Hooked(s2) : i < j => g[i] < g[j]
  BY <1>1, <1>3
<1>5. \A i \in Hooked(s2) : gs[g[i]].id = s2[i].id
  BY <1>1, <1>3
<1> QED BY <1>2, <1>4, <1>5 DEF Embeds

\* A probed call that begins has its frame on top.
LEMMA EmbedsPush ==
  ASSUME NEW s, NEW fs, Embeds(s, fs), NEW s2, NEW gs, Len(s) \in Nat, Len(fs) \in Nat,
         Hooked(s2) = Hooked(s) \cup {Len(s) + 1}, Len(gs) = Len(fs) + 1,
         \A i \in Hooked(s) : s2[i].id = s[i].id,
         \A i \in 1..Len(fs) : gs[i].id = fs[i].id,
         gs[Len(fs) + 1].id = s2[Len(s) + 1].id
  PROVE  Embeds(s2, gs)
<1>1. PICK e \in [Hooked(s) -> 1..Len(fs)] :
             /\ \A i, j \in Hooked(s) : i < j => e[i] < e[j]
             /\ \A i \in Hooked(s) : fs[e[i]].id = s[i].id
  BY DEF Embeds
<1>2. \A i \in Hooked(s) : i \in 1..Len(s) /\ i # Len(s) + 1 /\ i < Len(s) + 1
  BY DEF Hooked
<1> DEFINE m == Len(s) + 1
           g == [i \in Hooked(s2) |-> IF i = m THEN Len(fs) + 1 ELSE e[i]]
<1>3. g[m] = Len(fs) + 1
  OBVIOUS
<1>4. \A i \in Hooked(s) : g[i] = e[i] /\ e[i] \in 1..Len(fs)
  BY <1>1, <1>2
<1>5. g \in [Hooked(s2) -> 1..Len(gs)]
  <2> SUFFICES ASSUME NEW i \in Hooked(s2)
               PROVE  (IF i = m THEN Len(fs) + 1 ELSE e[i]) \in 1..Len(gs)
    OBVIOUS
  <2> QED BY <1>4
<1> HIDE DEF g
<1>6. ASSUME NEW i \in Hooked(s2), NEW j \in Hooked(s2), i < j PROVE g[i] < g[j]
  <2>1. CASE j = m
    <3>1. i \in Hooked(s)
      BY <1>6, <2>1
    <3> QED BY <1>3, <1>4, <2>1, <3>1
  <2>2. CASE j # m
    <3>1. j \in Hooked(s) /\ i \in Hooked(s)
      BY <1>2, <1>6, <2>2
    <3> QED BY <1>1, <1>4, <1>6, <3>1
  <2> QED BY <2>1, <2>2
<1>7. ASSUME NEW i \in Hooked(s2) PROVE gs[g[i]].id = s2[i].id
  <2>1. CASE i = m
    BY <1>3, <2>1
  <2>2. CASE i # m
    BY <1>1, <1>4, <2>2
  <2> QED BY <2>1, <2>2
<1> QED BY <1>5, <1>6, <1>7 DEF Embeds

\* The topmost probed call returns: its own frame is there, and a later one of
\* the same function only costs the frames above its own.
LEMMA EmbedsPop ==
  ASSUME NEW s, NEW fs, Embeds(s, fs), NEW s2, NEW gs, Len(s) \in Nat, Len(fs) \in Nat,
         Len(s) \in Hooked(s), NEW c \in 1..Len(fs),
         \A j \in 1..Len(fs) : fs[j].id = s[Len(s)].id => j <= c,
         Hooked(s2) = Hooked(s) \ {Len(s)}, Len(gs) = c - 1,
         \A i \in Hooked(s2) : s2[i].id = s[i].id,
         \A i \in 1..c - 1 : gs[i].id = fs[i].id
  PROVE  Embeds(s2, gs)
<1>1. PICK e \in [Hooked(s) -> 1..Len(fs)] :
             /\ \A i, j \in Hooked(s) : i < j => e[i] < e[j]
             /\ \A i \in Hooked(s) : fs[e[i]].id = s[i].id
  BY DEF Embeds
<1>2. e[Len(s)] \in 1..Len(fs) /\ e[Len(s)] <= c
  BY <1>1
<1>3. \A i \in Hooked(s2) : i \in Hooked(s) /\ i < Len(s)
  BY DEF Hooked
<1>4. \A i \in Hooked(s2) : e[i] \in 1..c - 1
  <2> TAKE i \in Hooked(s2)
  <2>1. e[i] < e[Len(s)] /\ e[i] \in 1..Len(fs)
    BY <1>1, <1>3
  <2> QED BY <1>2, <2>1
<1> DEFINE g == [i \in Hooked(s2) |-> e[i]]
<1>5. g \in [Hooked(s2) -> 1..Len(gs)] /\ \A i \in Hooked(s2) : g[i] = e[i]
  BY <1>4
<1> HIDE DEF g
<1>6. \A i, j \in Hooked(s2) : i < j => g[i] < g[j]
  BY <1>1, <1>3, <1>5
<1>7. \A i \in Hooked(s2) : gs[g[i]].id = s2[i].id
  BY <1>1, <1>3, <1>4, <1>5
<1> QED BY <1>5, <1>6, <1>7 DEF Embeds

\* The topmost probed call has a frame of its function.
LEMMA EmbedsTop ==
  ASSUME NEW s, NEW fs, Embeds(s, fs), NEW i \in Hooked(s)
  PROVE  \E j \in 1..Len(fs) : fs[j].id = s[i].id
BY DEF Embeds

\* Exactly the probed calls, whatever else begins or ends.
LEMMA MirrorsStill ==
  ASSUME NEW s, NEW fs, Mirrors(s, fs), NEW s2, Hooked(s2) = Hooked(s),
         \A i \in Hooked(s) : /\ s2[i].id = s[i].id /\ s2[i].start = s[i].start
                              /\ s2[i].kids = s[i].kids
  PROVE  Mirrors(s2, fs)
<1>1. PICK e \in [1..Len(fs) -> Hooked(s)] :
             /\ \A i, j \in 1..Len(fs) : i < j => e[i] < e[j]
             /\ \A j \in Hooked(s) : \E i \in 1..Len(fs) : e[i] = j
             /\ \A i \in 1..Len(fs) : /\ fs[i].id = s[e[i]].id /\ fs[i].start = s[e[i]].start
                                      /\ fs[i].kids = s[e[i]].kids
  BY DEF Mirrors
<1>2. \A i \in 1..Len(fs) : e[i] \in Hooked(s)
  OBVIOUS
<1>3. \A i \in 1..Len(fs) : /\ fs[i].id = s2[e[i]].id /\ fs[i].start = s2[e[i]].start
                            /\ fs[i].kids = s2[e[i]].kids
  BY <1>1, <1>2
<1> QED BY <1>1, <1>3 DEF Mirrors

LEMMA MirrorsPush ==
  ASSUME NEW s, NEW fs, Mirrors(s, fs), NEW s2, NEW gs, Len(s) \in Nat, Len(fs) \in Nat,
         Hooked(s2) = Hooked(s) \cup {Len(s) + 1}, Len(gs) = Len(fs) + 1,
         \A i \in 1..Len(s) : s2[i] = s[i],
         \A i \in 1..Len(fs) : gs[i] = fs[i],
         gs[Len(fs) + 1].id = s2[Len(s) + 1].id,
         gs[Len(fs) + 1].start = s2[Len(s) + 1].start,
         gs[Len(fs) + 1].kids = s2[Len(s) + 1].kids
  PROVE  Mirrors(s2, gs)
<1>1. PICK e \in [1..Len(fs) -> Hooked(s)] :
             /\ \A i, j \in 1..Len(fs) : i < j => e[i] < e[j]
             /\ \A j \in Hooked(s) : \E i \in 1..Len(fs) : e[i] = j
             /\ \A i \in 1..Len(fs) : /\ fs[i].id = s[e[i]].id /\ fs[i].start = s[e[i]].start
                                      /\ fs[i].kids = s[e[i]].kids
  BY DEF Mirrors
<1> DEFINE n == Len(fs)
           g == [i \in 1..Len(gs) |-> IF i = n + 1 THEN Len(s) + 1 ELSE e[i]]
<1>2. /\ \A i \in 1..n : g[i] = e[i] /\ e[i] \in Hooked(s) /\ e[i] \in 1..Len(s) /\ i \in 1..Len(gs)
      /\ g[n + 1] = Len(s) + 1 /\ n + 1 \in 1..Len(gs)
      /\ \A i \in 1..Len(gs) : i = n + 1 \/ i \in 1..n
  <2>1. \A i \in 1..n : e[i] \in Hooked(s) /\ e[i] \in 1..Len(s) /\ i \in 1..Len(gs) /\ i # n + 1
    BY DEF Hooked
  <2> QED BY <2>1
<1>3. g \in [1..Len(gs) -> Hooked(s2)]
  <2> SUFFICES ASSUME NEW i \in 1..Len(gs)
               PROVE  (IF i = n + 1 THEN Len(s) + 1 ELSE e[i]) \in Hooked(s2)
    OBVIOUS
  <2> QED BY <1>2
<1> HIDE DEF g
<1>4. ASSUME NEW i \in 1..Len(gs), NEW j \in 1..Len(gs), i < j PROVE g[i] < g[j]
  <2>1. i \in 1..n
    BY <1>4
  <2>2. CASE j = n + 1
    BY <1>2, <2>1, <2>2
  <2>3. CASE j \in 1..n
    BY <1>1, <1>2, <1>4, <2>1, <2>3
  <2> QED BY <1>2, <2>2, <2>3
<1>5. ASSUME NEW j \in Hooked(s2) PROVE \E i \in 1..Len(gs) : g[i] = j
  <2>1. CASE j = Len(s) + 1
    BY <1>2, <2>1
  <2>2. CASE j \in Hooked(s)
    <3>1. PICK i \in 1..n : e[i] = j
      BY <1>1, <2>2
    <3>2. g[i] = j /\ i \in 1..Len(gs)
      BY <1>2, <3>1
    <3> QED BY <3>2
  <2> QED BY <2>1, <2>2
<1>6. ASSUME NEW i \in 1..Len(gs)
      PROVE  /\ gs[i].id = s2[g[i]].id /\ gs[i].start = s2[g[i]].start
             /\ gs[i].kids = s2[g[i]].kids
  <2>1. CASE i = n + 1
    BY <1>2, <2>1
  <2>2. CASE i \in 1..n
    <3>1. gs[i] = fs[i] /\ s2[g[i]] = s[e[i]]
      BY <1>2, <2>2
    <3> QED BY <1>1, <2>2, <3>1
  <2> QED BY <1>2, <2>1, <2>2
<1> QED BY <1>3, <1>4, <1>5, <1>6 DEF Mirrors

\* The topmost probed call is the helper's last frame, as deep as probed calls
\* are below it; the next below is the frame under it.
LEMMA MirrorsTop ==
  ASSUME NEW s, NEW fs, Mirrors(s, fs), Len(s) \in Nat, Len(fs) \in Nat, Len(s) \in Hooked(s)
  PROVE  /\ Len(fs) >= 1
         /\ fs[Len(fs)].id = s[Len(s)].id /\ fs[Len(fs)].start = s[Len(s)].start
         /\ fs[Len(fs)].kids = s[Len(s)].kids
         /\ Len(fs) = 1 <=> Hooked(s) \ {Len(s)} = {}
<1>1. PICK e \in [1..Len(fs) -> Hooked(s)] :
             /\ \A i, j \in 1..Len(fs) : i < j => e[i] < e[j]
             /\ \A j \in Hooked(s) : \E i \in 1..Len(fs) : e[i] = j
             /\ \A i \in 1..Len(fs) : /\ fs[i].id = s[e[i]].id /\ fs[i].start = s[e[i]].start
                                      /\ fs[i].kids = s[e[i]].kids
  BY DEF Mirrors
<1>2. PICK k \in 1..Len(fs) : e[k] = Len(s)
  BY <1>1
<1>3. \A i \in 1..Len(fs) : e[i] \in 1..Len(s)
  BY DEF Hooked
<1>4. k = Len(fs)
  <2> SUFFICES ASSUME k < Len(fs) PROVE FALSE
    OBVIOUS
  <2>1. e[k] < e[Len(fs)] /\ e[Len(fs)] \in 1..Len(s)
    BY <1>1, <1>3
  <2> QED BY <1>2, <2>1
<1>5. ASSUME Len(fs) = 1 PROVE Hooked(s) \ {Len(s)} = {}
  BY <1>1, <1>2, <1>4, <1>5
<1>6. ASSUME Len(fs) # 1 PROVE Hooked(s) \ {Len(s)} # {}
  <2>1. 1 \in 1..Len(fs) /\ 1 < Len(fs) /\ Len(fs) \in 1..Len(fs)
    BY <1>4, <1>6
  <2>2. e[1] \in Hooked(s) /\ e[1] < Len(s)
    BY <1>1, <1>2, <1>4, <2>1
  <2> QED BY <2>2
<1> QED BY <1>1, <1>2, <1>4, <1>5, <1>6

Topmost(set, i) == \A j \in set : j <= i

\* The program's stack after its topmost probed call, and the helper's after its
\* topmost frame.
Popped(s, s2, node) ==
  /\ Len(s) \in Nat /\ Len(s) \in Hooked(s) /\ Hooked(s2) = Hooked(s) \ {Len(s)}
  /\ \A i \in Hooked(s2) :
       /\ s2[i].id = s[i].id /\ s2[i].start = s[i].start
       /\ s2[i].kids = IF Topmost(Hooked(s2), i) THEN Append(s[i].kids, node) ELSE s[i].kids

Closed(fs, gs, node) ==
  /\ Len(fs) \in Nat /\ Len(gs) = Len(fs) - 1
  /\ \A i \in 1..Len(fs) - 1 :
       /\ gs[i].id = fs[i].id /\ gs[i].start = fs[i].start
       /\ gs[i].kids = IF i = Len(fs) - 1 THEN Append(fs[i].kids, node) ELSE fs[i].kids

LEMMA MirrorsPop ==
  ASSUME NEW s, NEW fs, Mirrors(s, fs), NEW s2, NEW gs, NEW node,
         Popped(s, s2, node), Closed(fs, gs, node)
  PROVE  Mirrors(s2, gs)
<1> DEFINE n == Len(fs) - 1
<1>0. /\ Len(s) \in Nat /\ Len(s) \in Hooked(s) /\ Hooked(s2) = Hooked(s) \ {Len(s)}
      /\ Len(fs) \in Nat /\ Len(gs) = n
  BY DEF Popped, Closed
<1>1. PICK e \in [1..Len(fs) -> Hooked(s)] :
             /\ \A i, j \in 1..Len(fs) : i < j => e[i] < e[j]
             /\ \A j \in Hooked(s) : \E i \in 1..Len(fs) : e[i] = j
             /\ \A i \in 1..Len(fs) : /\ fs[i].id = s[e[i]].id /\ fs[i].start = s[e[i]].start
                                      /\ fs[i].kids = s[e[i]].kids
  BY DEF Mirrors
<1>2. PICK k \in 1..Len(fs) : e[k] = Len(s)
  BY <1>0, <1>1
<1>3. \A i \in 1..Len(fs) : e[i] \in 1..Len(s) /\ e[i] \in Hooked(s)
  BY DEF Hooked
<1>4. k = Len(fs)
  <2> SUFFICES ASSUME k < Len(fs) PROVE FALSE
    BY <1>0
  <2>1. e[k] < e[Len(fs)] /\ e[Len(fs)] \in 1..Len(s)
    BY <1>0, <1>1, <1>3
  <2> QED BY <1>0, <1>2, <2>1
<1>5. \A i \in 1..n : i \in 1..Len(fs) /\ e[i] < Len(s) /\ e[i] \in Hooked(s2)
  BY <1>0, <1>1, <1>2, <1>3, <1>4
<1> DEFINE g == [i \in 1..Len(gs) |-> e[i]]
<1>6. g \in [1..Len(gs) -> Hooked(s2)] /\ \A i \in 1..n : g[i] = e[i]
  BY <1>0, <1>5
<1> HIDE DEF g
<1>7. \A i, j \in 1..n : i < j => g[i] < g[j]
  BY <1>1, <1>5, <1>6
<1>8. ASSUME NEW j \in Hooked(s2) PROVE \E i \in 1..n : g[i] = j
  <2>1. PICK i \in 1..Len(fs) : e[i] = j
    BY <1>0, <1>1
  <2>2. i # Len(fs)
    BY <1>0, <1>2, <1>4, <2>1
  <2> QED BY <1>0, <1>6, <2>1, <2>2
<1>9. ASSUME NEW i \in 1..n
      PROVE  /\ gs[i].id = s2[g[i]].id /\ gs[i].start = s2[g[i]].start
             /\ gs[i].kids = s2[g[i]].kids
  <2>1. e[i] \in Hooked(s2) /\ g[i] = e[i] /\ i \in 1..Len(fs)
    BY <1>5, <1>6
  <2>2. (i = n) <=> \A j \in Hooked(s2) : j <= e[i]
    <3>1. ASSUME i = n, NEW j \in Hooked(s2) PROVE j <= e[i]
      <4>1. PICK l \in 1..n : g[l] = j
        BY <1>8
      <4>2. l = i \/ g[l] < g[i]
        BY <1>7, <3>1, <4>1
      <4>3. e[i] \in Nat /\ j \in Nat
        BY <1>0, <1>3, <2>1 DEF Hooked
      <4> QED BY <1>6, <2>1, <4>1, <4>2, <4>3
    <3>2. ASSUME i # n PROVE ~ \A j \in Hooked(s2) : j <= e[i]
      <4>1. n \in 1..n /\ i < n
        BY <3>2
      <4>2. n \in 1..Len(fs) /\ i \in 1..Len(fs)
        BY <1>0, <1>5, <4>1
      <4>3. e[i] < e[n]
        BY <1>1, <4>1, <4>2
      <4>4. e[n] \in 1..Len(s) /\ e[i] \in 1..Len(s)
        BY <1>3, <4>2
      <4>5. e[n] \in Hooked(s2) /\ ~ (e[n] <= e[i])
        <5>1. e[n] \in Hooked(s2)
          BY <1>0, <1>5, <4>1
        <5>2. ~ (e[n] <= e[i])
          BY <1>0, <4>3, <4>4
        <5> QED BY <5>1, <5>2
      <4> QED BY <4>5
    <3> QED BY <3>1, <3>2
  <2>3. s2[e[i]].kids = IF i = n THEN Append(s[e[i]].kids, node) ELSE s[e[i]].kids
    BY <2>1, <2>2 DEF Popped, Topmost
  <2>4. gs[i].kids = IF i = n THEN Append(fs[i].kids, node) ELSE fs[i].kids
    BY DEF Closed
  <2>5. /\ gs[i].id = fs[i].id /\ gs[i].start = fs[i].start
        /\ s2[e[i]].id = s[e[i]].id /\ s2[e[i]].start = s[e[i]].start
    BY <2>1 DEF Closed, Popped
  <2> QED BY <1>1, <2>1, <2>3, <2>4, <2>5
<1>10. Len(gs) = n
  BY <1>0
<1> HIDE DEF n
<1>11. /\ g \in [1..Len(gs) -> Hooked(s2)]
       /\ \A i, j \in 1..Len(gs) : i < j => g[i] < g[j]
       /\ \A j \in Hooked(s2) : \E i \in 1..Len(gs) : g[i] = j
  BY <1>6, <1>7, <1>8, <1>10
<1>12. \A i \in 1..Len(gs) : /\ gs[i].id = s2[g[i]].id /\ gs[i].start = s2[g[i]].start
                             /\ gs[i].kids = s2[g[i]].kids
  BY <1>9, <1>10
<1> QED BY <1>11, <1>12 DEF Mirrors

LEMMA FramePush ==
  ASSUME NEW s, IsFrames(s), NEW r, IsFrame(r)
  PROVE  LET u == Append(s, r)
         IN  /\ IsFrames(u) /\ Len(u) = Len(s) + 1 /\ Len(s) \in Nat
             /\ \A i \in 1..Len(s) : u[i] = s[i]
             /\ u[Len(s) + 1] = r
<1> DEFINE u == Append(s, r)
<1>1. /\ IsSeq(u) /\ Len(u) = Len(s) + 1 /\ Len(s) \in Nat
      /\ \A i \in 1..Len(s) : u[i] = s[i]
      /\ u[Len(s) + 1] = r
  BY AppendSeq DEF IsFrames
<1> HIDE DEF u
<1>2. \A i \in 1..Len(u) : i = Len(s) + 1 \/ i \in 1..Len(s)
  BY <1>1
<1>3. IsFrames(u)
  BY <1>1, <1>2 DEF IsFrames
<1> QED BY <1>1, <1>3 DEF u

LEMMA FrameKids ==
  ASSUME NEW r, IsFrame(r), NEW node
  PROVE  LET q == [r EXCEPT !.kids = Append(r.kids, node)]
         IN  /\ IsFrame(q) /\ q.ip = r.ip /\ q.start = r.start /\ q.hooked = r.hooked
             /\ q.kids = Append(r.kids, node)
<1> DEFINE ks == Append(r.kids, node)
           q == [r EXCEPT !.kids = ks]
<1>1. IsSeq(ks)
  BY AppendSeq DEF IsFrame
<1> HIDE DEF ks
<1>2. q = [ip |-> r.ip, start |-> r.start, hooked |-> r.hooked, kids |-> ks]
  BY DEF IsFrame
<1> HIDE DEF q
<1>3. q.ip = r.ip /\ q.start = r.start /\ q.hooked = r.hooked /\ q.kids = ks
  BY <1>2
<1>4. IsFrame(q)
  BY <1>1, <1>2, <1>3 DEF IsFrame
<1> QED BY <1>3, <1>4 DEF q, ks

LEMMA AdoptFrame ==
  ASSUME NEW s, IsFrames(s), NEW i \in 1..Len(s), NEW node
  PROVE  LET r == Adopt(s, i, node)
         IN  /\ IsFrames(r) /\ Len(r) = Len(s)
             /\ \A j \in 1..Len(s) : /\ r[j].ip = s[j].ip /\ r[j].start = s[j].start
                                     /\ r[j].hooked = s[j].hooked
             /\ \A j \in 1..Len(s) : j # i => r[j].kids = s[j].kids
             /\ r[i].kids = Append(s[i].kids, node)
<1> DEFINE q == [s[i] EXCEPT !.kids = Append(s[i].kids, node)]
           r == Adopt(s, i, node)
<1>1. /\ IsFrame(q) /\ q.ip = s[i].ip /\ q.start = s[i].start /\ q.hooked = s[i].hooked
      /\ q.kids = Append(s[i].kids, node)
  BY FrameKids DEF IsFrames
<1>2. r = [s EXCEPT ![i] = q]
  BY DEF Adopt
<1> HIDE DEF q
<1>3. /\ IsSeq(r) /\ Len(r) = Len(s) /\ r[i] = q
      /\ \A j \in 1..Len(s) : j # i => r[j] = s[j]
  <2>1. IsSeq(s)
    BY DEF IsFrames
  <2>2. LET u == [s EXCEPT ![i] = q]
        IN  /\ IsSeq(u) /\ Len(u) = Len(s) /\ u[i] = q
            /\ \A j \in 1..Len(s) : j # i => u[j] = s[j]
    BY <2>1, UpdateSeq
  <2> HIDE DEF r
  <2> QED BY <1>2, <2>2
<1> HIDE DEF r
<1>4. IsFrames(r)
  BY <1>1, <1>3 DEF IsFrames
<1> QED BY <1>1, <1>3, <1>4 DEF r

\* What a return leaves of the program's stack.
Left(ids, s, node) ==
  LET below == Front(s)
      told == ToldIn(ids, below)
  IN  IF Told(ids, Last(s)) /\ told # {} THEN Adopt(below, Max(told), node) ELSE below

LEMMA FramePop ==
  ASSUME NEW ids, NEW s, IsFrames(s), s # <<>>
  PROVE  /\ IsFrames(Front(s)) /\ Len(s) \in Nat \ {0} /\ Len(Front(s)) = Len(s) - 1
         /\ \A i \in 1..Len(s) - 1 : Front(s)[i] = s[i]
         /\ ToldIn(ids, Front(s)) = ToldIn(ids, s) \ {Len(s)}
         /\ Last(s) = s[Len(s)] /\ IsFrame(Last(s))
<1>1. /\ IsSeq(Front(s)) /\ Len(Front(s)) = Len(s) - 1 /\ Len(s) \in Nat \ {0}
      /\ \A i \in 1..Len(s)-1 : Front(s)[i] = s[i]
  BY FrontSeq DEF IsFrames
<1>2. \A i \in 1..Len(s) - 1 : i \in 1..Len(s)
  BY <1>1
<1>3. IsFrames(Front(s))
  BY <1>1, <1>2 DEF IsFrames
<1>4. ToldIn(ids, Front(s)) = ToldIn(ids, s) \ {Len(s)}
  BY <1>1 DEF ToldIn, Told
<1>5. Last(s) = s[Len(s)] /\ Len(s) \in 1..Len(s)
  BY <1>1 DEF Last
<1> QED BY <1>1, <1>3, <1>4, <1>5 DEF IsFrames

\* The stack without its last call, which its last told call around it has seen.
Returned(ids, s, u, node) ==
  /\ IsFrames(u) /\ Len(u) = Len(s) - 1
  /\ ToldIn(ids, u) = ToldIn(ids, s) \ {Len(s)}
  /\ \A i \in 1..Len(s) - 1 : /\ u[i].ip = s[i].ip /\ u[i].start = s[i].start
                              /\ u[i].hooked = s[i].hooked
  /\ \A i \in ToldIn(ids, u) : u[i].kids =
       IF Told(ids, Last(s)) /\ \A j \in ToldIn(ids, u) : j <= i
       THEN Append(s[i].kids, node) ELSE s[i].kids

LEMMA FrameReturn ==
  ASSUME NEW ids, NEW s, IsFrames(s), s # <<>>, NEW node, NEW u, u = Left(ids, s, node)
  PROVE  Returned(ids, s, u, node)
<1> DEFINE b == Front(s)
           h == ToldIn(ids, b)
<1>1. /\ IsFrames(b) /\ Len(s) \in Nat \ {0} /\ Len(b) = Len(s) - 1
      /\ \A i \in 1..Len(s) - 1 : b[i] = s[i]
      /\ h = ToldIn(ids, s) \ {Len(s)}
  BY FramePop
<1>2. h \subseteq 1..Len(b) /\ Len(b) \in Nat /\ \A i \in h : i \in 1..Len(s) - 1
  BY <1>1 DEF ToldIn, Told
<1>3. CASE Told(ids, Last(s)) /\ h # {}
  <2>1. Max(h) \in h /\ \A y \in h : y <= Max(h)
    <3> HIDE DEF h, b
    <3> QED BY <1>2, <1>3, MaxIs
  <2> DEFINE m == Max(h)
  <2>2. u = Adopt(b, m, node)
    BY <1>3 DEF Left
  <2> HIDE DEF m, b
  <2>3. m \in 1..Len(b)
    BY <1>2, <2>1 DEF m
  <2>4. /\ IsFrames(u) /\ Len(u) = Len(b)
        /\ \A j \in 1..Len(b) : /\ u[j].ip = b[j].ip /\ u[j].start = b[j].start
                                /\ u[j].hooked = b[j].hooked
        /\ \A j \in 1..Len(b) : j # m => u[j].kids = b[j].kids
        /\ u[m].kids = Append(b[m].kids, node)
    <3>0. IsFrames(b)
      BY <1>1
    <3>1. LET r == Adopt(b, m, node)
          IN  /\ IsFrames(r) /\ Len(r) = Len(b)
              /\ \A j \in 1..Len(b) : /\ r[j].ip = b[j].ip /\ r[j].start = b[j].start
                                      /\ r[j].hooked = b[j].hooked
              /\ \A j \in 1..Len(b) : j # m => r[j].kids = b[j].kids
              /\ r[m].kids = Append(b[m].kids, node)
      BY <2>3, <3>0, AdoptFrame
    <3> QED BY <2>2, <3>1
  <2>5. ToldIn(ids, u) = h
    BY <2>4 DEF ToldIn, Told
  <2>6. m \in h /\ \A y \in h : y <= m
    BY <2>1 DEF m
  <2>7. \A i \in h : (\A j \in h : j <= i) <=> i = m
    <3> TAKE i \in h
    <3>1. i \in Nat /\ m \in Nat
      BY <1>2, <2>3
    <3> QED BY <2>6, <3>1
  <2> HIDE DEF h
  <2>8. \A i \in h : u[i].kids = IF \A j \in h : j <= i THEN Append(s[i].kids, node) ELSE s[i].kids
    BY <1>1, <1>2, <2>4, <2>7
  <2>9. /\ IsFrames(u) /\ Len(u) = Len(s) - 1
        /\ \A i \in 1..Len(s) - 1 : /\ u[i].ip = s[i].ip /\ u[i].start = s[i].start
                                    /\ u[i].hooked = s[i].hooked
    BY <1>1, <2>4
  <2>10. \A i \in ToldIn(ids, u) : u[i].kids =
           IF Told(ids, Last(s)) /\ \A j \in ToldIn(ids, u) : j <= i
           THEN Append(s[i].kids, node) ELSE s[i].kids
    BY <1>3, <2>5, <2>8
  <2> QED BY <1>1, <2>5, <2>9, <2>10 DEF Returned
<1>4. CASE ~ (Told(ids, Last(s)) /\ h # {})
  <2>1. u = b
    BY <1>4 DEF Left
  <2> HIDE DEF b
  <2>2. /\ IsFrames(u) /\ Len(u) = Len(s) - 1
        /\ ToldIn(ids, u) = ToldIn(ids, s) \ {Len(s)}
        /\ \A i \in 1..Len(s) - 1 : u[i] = s[i]
    BY <1>1, <2>1
  <2>3. \A i \in ToldIn(ids, u) : i \in 1..Len(s) - 1
    BY <2>2 DEF ToldIn, Told
  <2>4. \A i \in ToldIn(ids, u) : u[i].kids =
          IF Told(ids, Last(s)) /\ \A j \in ToldIn(ids, u) : j <= i
          THEN Append(s[i].kids, node) ELSE s[i].kids
    BY <1>4, <2>1, <2>2, <2>3
  <2> QED BY <2>2, <2>4 DEF Returned
<1> QED BY <1>3, <1>4

\* Probes removed take the uretprobes of the calls that run.
LEMMA FrameUnhook ==
  ASSUME NEW s, IsFrames(s)
  PROVE  LET u == [i \in 1..Len(s) |-> [s[i] EXCEPT !.hooked = FALSE]]
         IN  IsFrames(u) /\ Hooked(u) = {}
<1> DEFINE u == [i \in 1..Len(s) |-> [s[i] EXCEPT !.hooked = FALSE]]
<1>1. Len(s) \in Nat
  BY SeqLen DEF IsFrames
<1>2. DOMAIN u = 1..Len(s) /\ u = [i \in 1..Len(s) |-> u[i]]
  OBVIOUS
<1>3. IsSeq(u) /\ Len(u) = Len(s)
  <2> HIDE DEF u
  <2> QED BY <1>1, <1>2, SeqIs
<1>4. ASSUME NEW i \in 1..Len(s) PROVE IsFrame(u[i]) /\ ~u[i].hooked
  <2>1. IsFrame(s[i]) /\ u[i] = [s[i] EXCEPT !.hooked = FALSE]
    BY DEF IsFrames
  <2> HIDE DEF u
  <2>2. u[i] = [ip |-> s[i].ip, start |-> s[i].start, hooked |-> FALSE, kids |-> s[i].kids]
    BY <2>1 DEF IsFrame
  <2>3. /\ u[i].ip = s[i].ip /\ u[i].start = s[i].start /\ u[i].hooked = FALSE
        /\ u[i].kids = s[i].kids
    BY <2>2
  <2> QED BY <2>1, <2>2, <2>3 DEF IsFrame
<1> HIDE DEF u
<1>5. IsFrames(u) /\ Hooked(u) = {}
  BY <1>3, <1>4 DEF IsFrames, Hooked
<1> QED BY <1>5 DEF u

-----------------------------------------------------------------------------
(* The program's stack under the helper's names.                           *)

LEMMA ShownIs ==
  ASSUME NEW ids, NEW s, IsFrames(s), NEW v, v = Shown(ids, s)
  PROVE  /\ Len(v) = Len(s) /\ Len(v) \in Nat /\ Hooked(v) = ToldIn(ids, s)
         /\ \A i \in 1..Len(v) :
              /\ v[i].id = NameOf(ids, s[i].ip) /\ v[i].start = s[i].start
              /\ v[i].hooked = Told(ids, s[i]) /\ v[i].kids = s[i].kids
<1>1. Len(s) \in Nat
  BY SeqLen DEF IsFrames
<1> DEFINE e(i) == [id |-> NameOf(ids, s[i].ip), start |-> s[i].start,
                    hooked |-> Told(ids, s[i]), kids |-> s[i].kids]
<1>2. v = [i \in 1..Len(s) |-> e(i)]
  BY DEF Shown
<1>3. \A i : /\ e(i).id = NameOf(ids, s[i].ip) /\ e(i).start = s[i].start
             /\ e(i).hooked = Told(ids, s[i]) /\ e(i).kids = s[i].kids
  OBVIOUS
<1> HIDE DEF e
<1>4. DOMAIN v = 1..Len(s) /\ v = [i \in 1..Len(s) |-> v[i]] /\ \A i \in 1..Len(s) : v[i] = e(i)
  BY <1>2
<1>5. Len(v) = Len(s)
  BY <1>1, <1>4, SeqIs
<1>6. \A i \in 1..Len(v) :
        /\ v[i].id = NameOf(ids, s[i].ip) /\ v[i].start = s[i].start
        /\ v[i].hooked = Told(ids, s[i]) /\ v[i].kids = s[i].kids
  BY <1>3, <1>4, <1>5
<1>7. Hooked(v) = ToldIn(ids, s)
  BY <1>5, <1>6 DEF Hooked, ToldIn
<1> QED BY <1>1, <1>5, <1>6, <1>7

\* A call that begins is one more,
LEMMA ShownPush ==
  ASSUME NEW ids, NEW s, IsFrames(s), NEW r, IsFrame(r),
         NEW v, v = Shown(ids, s), NEW w, w = Shown(ids, Append(s, r))
  PROVE  /\ Len(v) \in Nat /\ Len(w) = Len(v) + 1
         /\ \A i \in 1..Len(v) : w[i] = v[i]
         /\ w[Len(v) + 1].id = NameOf(ids, r.ip) /\ w[Len(v) + 1].start = r.start
         /\ w[Len(v) + 1].kids = r.kids
         /\ Hooked(w) = IF Told(ids, r) THEN Hooked(v) \cup {Len(v) + 1} ELSE Hooked(v)
<1>1. PICK u : u = Append(s, r)
  OBVIOUS
<1>2. /\ IsFrames(u) /\ Len(u) = Len(s) + 1 /\ Len(s) \in Nat
      /\ \A i \in 1..Len(s) : u[i] = s[i]
      /\ u[Len(s) + 1] = r
  BY <1>1, FramePush
<1>3. /\ Len(v) = Len(s) /\ Hooked(v) = ToldIn(ids, s)
      /\ Len(w) = Len(u) /\ Hooked(w) = ToldIn(ids, u)
      /\ \A i \in 1..Len(u) : /\ w[i].id = NameOf(ids, u[i].ip) /\ w[i].start = u[i].start
                              /\ w[i].kids = u[i].kids
  <2>1. Len(v) = Len(s) /\ Hooked(v) = ToldIn(ids, s)
    BY ShownIs
  <2>2. /\ Len(w) = Len(u) /\ Hooked(w) = ToldIn(ids, u)
        /\ \A i \in 1..Len(w) : /\ w[i].id = NameOf(ids, u[i].ip) /\ w[i].start = u[i].start
                                /\ w[i].kids = u[i].kids
    <3>1. w = Shown(ids, u)
      BY <1>1
    <3> QED BY <1>2, <3>1, ShownIs
  <2> QED BY <2>1, <2>2
<1> DEFINE e(x, i) == [id |-> NameOf(ids, x[i].ip), start |-> x[i].start,
                       hooked |-> Told(ids, x[i]), kids |-> x[i].kids]
<1>4. v = [i \in 1..Len(s) |-> e(s, i)] /\ w = [i \in 1..Len(u) |-> e(u, i)]
  BY <1>1 DEF Shown
<1>5. \A i \in 1..Len(s) : e(u, i) = e(s, i)
  BY <1>2
<1> HIDE DEF e
<1>6. \A i \in 1..Len(s) : i \in 1..Len(u) /\ w[i] = v[i]
  BY <1>2, <1>4, <1>5
<1>7. Len(s) + 1 \in 1..Len(u)
  BY <1>2
<1>8. ToldIn(ids, u) = IF Told(ids, r) THEN ToldIn(ids, s) \cup {Len(s) + 1} ELSE ToldIn(ids, s)
  <2>1. \A i \in 1..Len(u) : i = Len(s) + 1 \/ i \in 1..Len(s)
    BY <1>2
  <2>2. \A i : i \in ToldIn(ids, u) <=> i \in ToldIn(ids, s) \/ (i = Len(s) + 1 /\ Told(ids, r))
    BY <1>2, <1>6, <1>7, <2>1 DEF ToldIn
  <2> QED BY <2>1, <2>2
<1> QED BY <1>2, <1>3, <1>6, <1>7, <1>8

\* one that ends is one less, and what told of it is the call around it.
LEMMA ShownLast ==
  ASSUME NEW ids, NEW s, IsFrames(s), s # <<>>, NEW v, v = Shown(ids, s), NEW top, top = Last(s)
  PROVE  /\ Len(v) \in Nat \ {0} /\ Len(v) = Len(s)
         /\ v[Len(v)].id = NameOf(ids, top.ip) /\ v[Len(v)].start = top.start
         /\ v[Len(v)].kids = top.kids
         /\ Len(v) \in Hooked(v) <=> Told(ids, top)
         /\ ToldIn(ids, Front(s)) = Hooked(v) \ {Len(v)}
<1>1. /\ Len(s) \in Nat \ {0} /\ top = s[Len(s)]
      /\ ToldIn(ids, Front(s)) = ToldIn(ids, s) \ {Len(s)}
  BY FramePop
<1>2. /\ Len(v) = Len(s) /\ Hooked(v) = ToldIn(ids, s)
      /\ \A i \in 1..Len(v) : /\ v[i].id = NameOf(ids, s[i].ip) /\ v[i].start = s[i].start
                              /\ v[i].kids = s[i].kids
  BY ShownIs
<1>3. Len(s) \in 1..Len(v)
  BY <1>1, <1>2
<1>4. Len(s) \in ToldIn(ids, s) <=> Told(ids, top)
  BY <1>1, <1>2, <1>3 DEF ToldIn
<1> QED BY <1>1, <1>2, <1>3, <1>4

LEMMA ShownFront ==
  ASSUME NEW ids, NEW s, IsFrames(s), s # <<>>,
         NEW v, v = Shown(ids, s), NEW w, w = Shown(ids, Front(s))
  PROVE  /\ Len(w) = Len(v) - 1 /\ Len(v) \in Nat \ {0}
         /\ Hooked(w) = Hooked(v) \ {Len(v)}
         /\ \A i \in Hooked(w) : /\ w[i].id = v[i].id /\ w[i].start = v[i].start
                                 /\ w[i].kids = v[i].kids
<1>1. PICK u : u = Front(s)
  OBVIOUS
<1>2. /\ IsFrames(u) /\ Len(s) \in Nat \ {0} /\ Len(u) = Len(s) - 1
      /\ \A i \in 1..Len(s) - 1 : u[i] = s[i]
      /\ ToldIn(ids, u) = ToldIn(ids, s) \ {Len(s)}
  BY <1>1, FramePop
<1>3. /\ Len(v) = Len(s) /\ Hooked(v) = ToldIn(ids, s)
      /\ \A i \in 1..Len(v) : /\ v[i].id = NameOf(ids, s[i].ip) /\ v[i].start = s[i].start
                              /\ v[i].kids = s[i].kids
  BY ShownIs
<1>4. /\ Len(w) = Len(u) /\ Hooked(w) = ToldIn(ids, u)
      /\ \A i \in 1..Len(w) : /\ w[i].id = NameOf(ids, u[i].ip) /\ w[i].start = u[i].start
                              /\ w[i].kids = u[i].kids
  BY <1>1, <1>2, ShownIs
<1>5. \A i \in Hooked(w) : i \in 1..Len(w) /\ i \in 1..Len(v) /\ u[i] = s[i]
  BY <1>2, <1>3, <1>4 DEF Hooked
<1> QED BY <1>2, <1>3, <1>4, <1>5

LEMMA ShownReturn ==
  ASSUME NEW ids, NEW s, IsFrames(s), s # <<>>, NEW node,
         NEW v, v = Shown(ids, s), NEW w, w = Shown(ids, Left(ids, s, node))
  PROVE  /\ Len(w) = Len(v) - 1 /\ Len(v) \in Nat \ {0}
         /\ Hooked(w) = Hooked(v) \ {Len(v)}
         /\ \A i \in Hooked(w) :
              /\ w[i].id = v[i].id /\ w[i].start = v[i].start
              /\ w[i].kids = IF Told(ids, Last(s)) /\ \A j \in Hooked(w) : j <= i
                             THEN Append(v[i].kids, node) ELSE v[i].kids
<1>1. PICK u : u = Left(ids, s, node)
  OBVIOUS
<1>2. /\ IsFrames(u) /\ Len(u) = Len(s) - 1
      /\ ToldIn(ids, u) = ToldIn(ids, s) \ {Len(s)}
      /\ \A i \in 1..Len(s) - 1 : /\ u[i].ip = s[i].ip /\ u[i].start = s[i].start
                                  /\ u[i].hooked = s[i].hooked
      /\ \A i \in ToldIn(ids, u) : u[i].kids =
           IF Told(ids, Last(s)) /\ \A j \in ToldIn(ids, u) : j <= i
           THEN Append(s[i].kids, node) ELSE s[i].kids
  <2>1. Returned(ids, s, u, node)
    BY <1>1, FrameReturn
  <2> QED BY <2>1 DEF Returned
<1>3. Len(s) \in Nat \ {0}
  BY FramePop
<1>4. /\ Len(v) = Len(s) /\ Hooked(v) = ToldIn(ids, s)
      /\ \A i \in 1..Len(v) : /\ v[i].id = NameOf(ids, s[i].ip) /\ v[i].start = s[i].start
                              /\ v[i].kids = s[i].kids
  BY ShownIs
<1>5. /\ Len(w) = Len(u) /\ Hooked(w) = ToldIn(ids, u)
      /\ \A i \in 1..Len(w) : /\ w[i].id = NameOf(ids, u[i].ip) /\ w[i].start = u[i].start
                              /\ w[i].kids = u[i].kids
  BY <1>1, <1>2, ShownIs
<1>6. \A i \in Hooked(w) : i \in 1..Len(w) /\ i \in 1..Len(v) /\ i \in 1..Len(s) - 1
  BY <1>2, <1>3, <1>4, <1>5 DEF Hooked
<1>7. ASSUME NEW i \in Hooked(w)
      PROVE  /\ w[i].id = v[i].id /\ w[i].start = v[i].start
             /\ w[i].kids = IF Told(ids, Last(s)) /\ \A j \in Hooked(w) : j <= i
                            THEN Append(v[i].kids, node) ELSE v[i].kids
  BY <1>2, <1>4, <1>5, <1>6
<1> QED BY <1>2, <1>3, <1>4, <1>5, <1>7

-----------------------------------------------------------------------------
(* The records of returns that wait in the ring.                           *)

Exits(map, batch) == {i \in 1..Len(batch) : batch[i].kind = "exit" /\ batch[i].ip \in DOMAIN map}

LEMMA ExitsFinite ==
  ASSUME NEW map, NEW batch, Len(batch) \in Nat
  PROVE  IsFiniteSet(Exits(map, batch)) /\ Cardinality(Exits(map, batch)) \in Nat
<1>1. IsFiniteSet(1..Len(batch))
  BY FS_Interval
<1>2. IsFiniteSet(Exits(map, batch))
  BY <1>1, FS_Subset DEF Exits
<1> QED BY <1>2, FS_CardinalityType

LEMMA ExitsAppend ==
  ASSUME NEW map, NEW batch, IsSeq(batch), NEW ev
  PROVE  Cardinality(Exits(map, Append(batch, ev))) =
           Cardinality(Exits(map, batch))
             + (IF ev.kind = "exit" /\ ev.ip \in DOMAIN map THEN 1 ELSE 0)
<1> DEFINE more == Append(batch, ev)
           n == Len(batch)
           counts == ev.kind = "exit" /\ ev.ip \in DOMAIN map
<1>1. /\ n \in Nat /\ Len(more) = n + 1 /\ more[n + 1] = ev
      /\ \A k \in 1..n : more[k] = batch[k]
  BY AppendSeq
<1> HIDE DEF more
<1>2. Exits(map, more) = IF counts THEN Exits(map, batch) \cup {n + 1} ELSE Exits(map, batch)
  <2>1. \A i \in 1..n + 1 : i = n + 1 \/ i \in 1..n
    BY <1>1
  <2>2. \A i : i \in Exits(map, more) <=> i \in Exits(map, batch) \/ (i = n + 1 /\ counts)
    BY <1>1, <2>1 DEF Exits
  <2> QED BY <2>2
<1>3. IsFiniteSet(Exits(map, batch)) /\ Cardinality(Exits(map, batch)) \in Nat
  BY <1>1, ExitsFinite
<1>4. n + 1 \notin Exits(map, batch)
  BY <1>1 DEF Exits
<1>5. Cardinality(Exits(map, batch) \cup {n + 1}) = Cardinality(Exits(map, batch)) + 1
  BY <1>3, <1>4, FS_AddElement
<1> QED BY <1>2, <1>3, <1>5 DEF more

-----------------------------------------------------------------------------
(* What the steps have in common.                                          *)

LEMMA ConcatItems ==
  ASSUME NEW s, IsSeq(s), NEW u, IsSeq(u)
  PROVE  /\ IsSeq(s \o u) /\ Len(s \o u) = Len(s) + Len(u) /\ Len(s) \in Nat /\ Len(u) \in Nat
         /\ \A i \in 1..Len(s) : (s \o u)[i] = s[i]
         /\ \A i \in 1..Len(u) : (s \o u)[Len(s) + i] = u[i]
<1> DEFINE S == {s[i] : i \in 1..Len(s)} \cup {u[i] : i \in 1..Len(u)}
<1>1. s \in Seq(S) /\ u \in Seq(S)
  <2>1. /\ s \in Seq({s[i] : i \in 1..Len(s)}) /\ {s[i] : i \in 1..Len(s)} \subseteq S
        /\ u \in Seq({u[i] : i \in 1..Len(u)}) /\ {u[i] : i \in 1..Len(u)} \subseteq S
    BY DEF IsSeq
  <2>2. \A A, B, w : A \subseteq B /\ w \in Seq(A) => w \in Seq(B)
    OBVIOUS
  <2> QED BY <2>1, <2>2
<1> HIDE DEF S
<1>2. s \o u \in Seq(S) /\ Len(s \o u) = Len(s) + Len(u) /\ Len(s) \in Nat /\ Len(u) \in Nat
  BY <1>1
<1>3. /\ \A i \in 1..Len(s) : (s \o u)[i] = s[i]
      /\ \A i \in 1..Len(u) : (s \o u)[Len(s) + i] = u[i]
  BY <1>1
<1> QED BY <1>2, <1>3, IsSeqOf

LEMMA StacksUpdate ==
  ASSUME NEW s, IsStacks(s), NEW t \in Threads, NEW x, IsFrames(x)
  PROVE  LET r == [s EXCEPT ![t] = x]
         IN  /\ IsStacks(r) /\ r[t] = x
             /\ \A u \in Threads \ {t} : r[u] = s[u]
<1> DEFINE r == [s EXCEPT ![t] = x]
<1>1. s = [u \in Threads |-> s[u]]
  BY DEF IsStacks
<1>2. r = [u \in Threads |-> r[u]] /\ r[t] = x /\ \A u \in Threads \ {t} : r[u] = s[u]
  BY <1>1
<1> HIDE DEF r
<1>3. IsStacks(r)
  BY <1>2 DEF IsStacks
<1> QED BY <1>2, <1>3 DEF r

\* Records put in the ring: all of them, unless it is full.
LEMMA Submitted ==
  ASSUME IsRing(ring), NEW ev, ev.tid \in Threads, ev.kind \in {"enter", "exit"},
         NEW n \in Nat, lost \in BOOLEAN, submit(ev, n)
  PROVE  /\ IsRing(ring') /\ lost' \in BOOLEAN /\ (~lost' => ~lost)
         /\ n = 0 => ring' = ring
         /\ n = 1 /\ ~lost' => ring' = Append(ring, ev)
         /\ Len(ring) <= RingSize => Len(ring') <= RingSize
<1> DEFINE room == RingSize - Len(ring)
<1>1. Len(ring) \in Nat /\ RingSize \in Nat
  BY SeqLen, EbpfAssumption DEF IsRing
<1>2. PICK m \in Int : m = IF n <= room THEN n ELSE room
  BY <1>1
<1>3. PICK more : more = [k \in 1..m |-> ev]
  OBVIOUS
<1>4. ring' = ring \o more /\ lost' = (lost \/ n > room)
  BY <1>2, <1>3 DEF submit
<1>5. PICK l \in Nat : 1..m = 1..l /\ (m \in Nat => l = m) /\ (m \notin Nat => l = 0)
  <2>1. CASE m \in Nat
    BY <2>1
  <2>2. CASE m \notin Nat
    <3>1. 1..m = 1..0
      BY <2>2
    <3> QED BY <2>2, <3>1
  <2> QED BY <2>1, <2>2
<1>6. IsSeq(more) /\ Len(more) = l /\ \A k \in 1..l : more[k] = ev
  <2>1. DOMAIN more = 1..l /\ more = [k \in 1..l |-> more[k]]
    BY <1>3, <1>5
  <2> QED BY <1>3, <1>5, <2>1, SeqIs
<1>7. IsRing(ring')
  <2>1. PICK r : r = ring \o more
    OBVIOUS
  <2>2. /\ IsSeq(r) /\ Len(r) = Len(ring) + l
        /\ \A i \in 1..Len(ring) : r[i] = ring[i]
        /\ \A i \in 1..l : r[Len(ring) + i] = ev
    <3>1. PICK old : old = ring
      OBVIOUS
    <3>2. IsSeq(old) /\ IsSeq(more) /\ r = old \o more
      BY <1>6, <2>1, <3>1 DEF IsRing
    <3>3. /\ IsSeq(old \o more) /\ Len(old \o more) = Len(old) + Len(more)
          /\ \A i \in 1..Len(old) : (old \o more)[i] = old[i]
          /\ \A i \in 1..Len(more) : (old \o more)[Len(old) + i] = more[i]
      BY <3>2, ConcatItems
    <3> QED BY <1>6, <3>1, <3>2, <3>3
  <2>3. ASSUME NEW i \in 1..Len(r)
        PROVE  r[i].tid \in Threads /\ r[i].kind \in {"enter", "exit"}
    <3>1. CASE i \in 1..Len(ring)
      BY <2>2, <3>1 DEF IsRing
    <3>2. CASE i \notin 1..Len(ring)
      <4>1. i - Len(ring) \in 1..l /\ Len(ring) + (i - Len(ring)) = i
        BY <1>1, <2>2, <3>2
      <4> QED BY <2>2, <4>1
    <3> QED BY <3>1, <3>2
  <2> QED BY <1>4, <2>1, <2>2, <2>3 DEF IsRing
<1>8. ASSUME n = 0 PROVE ring' = ring
  <2>1. l = 0
    BY <1>1, <1>2, <1>5, <1>8
  <2>2. more = <<>>
    BY <1>6, <2>1 DEF IsSeq
  <2> QED BY <1>4, <1>6, <2>2, ConcatSeq DEF IsRing
<1>9. ASSUME n = 1, ~lost' PROVE ring' = Append(ring, ev)
  <2>1. l = 1
    <3>1. ~ (n > room)
      BY <1>4, <1>9, Zenon
    <3>2. n <= room /\ m = 1 /\ m \in Nat
      BY <1>1, <1>2, <1>9, <3>1
    <3> QED BY <1>5, <3>2
  <2>2. more = <<ev>>
    BY <1>3, <1>5, <2>1
  <2> QED BY <1>4, <2>2, ConcatOne DEF IsRing
<1>10. lost' \in BOOLEAN /\ (~lost' => ~lost)
  BY <1>4
<1>11. ASSUME Len(ring) <= RingSize PROVE Len(ring') <= RingSize
  <2>1. m \in Nat /\ m <= RingSize - Len(ring)
    BY <1>1, <1>2, <1>11
  <2>2. Len(ring') = Len(ring) + Len(more)
    BY <1>4, <1>6, ConcatItems DEF IsRing
  <2> QED BY <1>1, <1>5, <1>6, <2>1, <2>2
<1> QED BY <1>7, <1>8, <1>9, <1>10, <1>11

LEMMA ReadSame ==
  ASSUME UNCHANGED <<forest, ring, attached>>
  PROVE  Read' = Read /\ Unread' = Unread
BY DEF Read, ingest, Unread, ips

LEMMA ReadMore ==
  ASSUME Shape, NEW ev, ring' = Append(ring, ev), forest' = forest, attached' = attached
  PROVE  /\ Read' = TakeIn(ips, Read, ev)
         /\ Unread' = Unread + (IF ev.kind = "exit" /\ ev.ip \in DOMAIN ips THEN 1 ELSE 0)
<1>0. PICK map : map = ips
  OBVIOUS
<1>1. IsSeq(ring) /\ ips' = map
  BY <1>0 DEF Shape, IsRing, ips
<1>2. Read' = TakeIn(map, Read, ev)
  BY <1>0, <1>1, IngestAppend DEF Read, ingest
<1>3. Unread' = Cardinality(Exits(map, Append(ring, ev))) /\ Unread = Cardinality(Exits(map, ring))
  BY <1>0, <1>1 DEF Unread, Exits
<1> QED BY <1>0, <1>1, <1>2, <1>3, ExitsAppend

LEMMA ReadNothing ==
  ASSUME ring' = <<>>
  PROVE  /\ Read' = [forest |-> forest', done |-> <<>>]
         /\ Unread' = 0 /\ IsRing(ring') /\ IsSeq(<<>>)
         /\ IsForest(forest') => IsAcc(Read')
<1>1. Read' = [forest |-> forest', done |-> <<>>]
  <2>1. Read' = Ingested(ips', [forest |-> forest', done |-> <<>>], ring')
    BY DEF Read, ingest
  <2> QED BY <2>1, IngestNone
<1>2. Len(ring') = 0 /\ IsSeq(ring') /\ IsSeq(<<>>)
  BY NothingIsSeq
<1>3. IsRing(ring')
  BY <1>2 DEF IsRing
<1>4. Unread' = Cardinality({})
  <2>1. {i \in 1..Len(ring') : ring'[i].kind = "exit" /\ ring'[i].ip \in DOMAIN ips'} = {}
    BY <1>2
  <2> QED BY <2>1 DEF Unread
<1>5. Cardinality({}) = 0
  BY FS_EmptySet
<1>6. IsForest(forest') => IsAcc(Read')
  BY <1>1, <1>2 DEF IsAcc
<1> QED BY <1>1, <1>2, <1>3, <1>4, <1>5, <1>6

LEMMA ReadAgain ==
  ASSUME IsForest(forest'), IsRing(ring')
  PROVE  IsAcc(Read')
<1>1. PICK map, start, batch :
        map = ips' /\ start = [forest |-> forest', done |-> <<>>] /\ batch = ring'
  OBVIOUS
<1>2. IsAcc(start)
  BY <1>1, NothingIsSeq DEF IsAcc
<1>3. Read' = Ingested(map, start, batch)
  BY <1>1 DEF Read, ingest
<1> QED BY <1>1, <1>2, <1>3, ReadShape

\* The symbol whose probes are at an address, and what the helper calls it.
LEMMA OneProbe ==
  ASSUME EnterFirst, Handed, OneName, NEW a, NEW kind, kind \in {"enter", "exit"},
         NEW i \in ProbesAt(a, kind)
  PROVE  ProbesAt(a, kind) = {i} /\ i \in ToSet(attached) /\ Ip[i] = a
<1>1. ASSUME NEW j \in ProbesAt(a, kind) PROVE j \in ToSet(attached) /\ Ip[j] = a
  <2>1. j \in Ids /\ <<j, kind>> \in probes /\ Ip[j] = a
    BY DEF ProbesAt
  <2>2. <<j, "enter">> \in probes
    BY <2>1 DEF EnterFirst
  <2> QED BY <2>1, <2>2 DEF Handed
<1>2. \A j \in ProbesAt(a, kind) : j = i
  BY <1>1 DEF OneName
<1> QED BY <1>1, <1>2

LEMMA Lookup ==
  ASSUME IsSeq(attached), OneName, NEW a, NEW i \in ToSet(attached), Ip[i] = a
  PROVE  /\ a \in DOMAIN ips => ips[a] = i
         /\ Knows(attached, a) <=> a \in DOMAIN ips
         /\ NameOf(attached, a) = i
<1>1. \A k \in ToSet(attached) : Ip[k] = a \/ Key[k] = a => k = i
  BY DEF OneName
<1>2. PICK ids : ids = attached
  OBVIOUS
<1>3. Len(ids) \in Nat /\ ToSet(ids) = {ids[k] : k \in 1..Len(ids)}
  <2>1. Len(ids) \in Nat /\ DOMAIN ids = 1..Len(ids)
    BY <1>2 DEF IsSeq
  <2> QED BY <2>1 DEF ToSet
<1> DEFINE at(x) == {k \in 1..Len(ids) : Key[ids[k]] = x}
<1>4. DOMAIN ips = {Key[k] : k \in ToSet(ids)}
  BY <1>2 DEF ips, Named
<1>5. a \in DOMAIN ips <=> Key[i] = a
  BY <1>1, <1>2, <1>4
<1>6. ASSUME a \in DOMAIN ips PROVE ips[a] = i
  <2>1. ips[a] = ids[Max(at(a))]
    BY <1>2, <1>4, <1>6 DEF ips, Named
  <2>2. at(a) \subseteq 1..Len(ids) /\ at(a) # {}
    BY <1>2, <1>3, <1>5, <1>6
  <2> HIDE DEF at
  <2>3. Max(at(a)) \in at(a)
    BY <1>3, <2>2, MaxIs
  <2>4. Max(at(a)) \in 1..Len(ids) /\ Key[ids[Max(at(a))]] = a
    BY <2>3 DEF at
  <2> QED BY <1>1, <1>2, <1>3, <2>1, <2>4
<1>7. Knows(attached, a) <=> Key[i] = a
  BY <1>1 DEF Knows
<1>8. NameOf(attached, a) = i
  BY <1>1 DEF NameOf
<1> QED BY <1>5, <1>6, <1>7, <1>8

LEMMA ProbesFinite ==
  ASSUME NEW a, NEW kind
  PROVE  Cardinality(ProbesAt(a, kind)) \in Nat
<1>1. Len(SymbolTable) \in Nat
  BY EbpfAssumption
<1>2. IsFiniteSet(Ids) /\ ProbesAt(a, kind) \subseteq Ids
  BY <1>1, FS_Interval DEF Ids, ProbesAt
<1> QED BY <1>2, FS_Subset, FS_CardinalityType

-----------------------------------------------------------------------------
(* The program's steps.                                                    *)

\* A step of one thread that ends no call the helper is told of.
LEMMA NoneEnds ==
  ASSUME Counts, ~broken => Agrees, NEW t \in Threads, UNCHANGED <<attached, seen, truth>>,
         Read'.done = Read.done, Unread' = Unread, ~broken' => ~broken,
         \A u \in Threads \ {t} : stacks'[u] = stacks[u] /\ Read'.forest[u] = Read.forest[u],
         Embeds(Shown(attached, stacks[t]), Read.forest[t])
           => Embeds(Shown(attached, stacks'[t]), Read'.forest[t]),
         ~broken' /\ Mirrors(Shown(attached, stacks[t]), Read.forest[t])
           => Mirrors(Shown(attached, stacks'[t]), Read'.forest[t])
  PROVE  Counts' /\ (~broken' => Agrees')
<1>1. PICK ids, ss, fs : ids = attached /\ ss = stacks' /\ fs = Read'.forest
  OBVIOUS
<1>2. AllSeen' = AllSeen
  BY DEF AllSeen
<1>3. \A u \in Threads : Embeds(Shown(ids, ss[u]), fs[u])
  BY <1>1 DEF Counts
<1>4. ASSUME ~broken' PROVE \A u \in Threads : Mirrors(Shown(ids, ss[u]), fs[u])
  BY <1>1, <1>4 DEF Agrees
<1>5. Counts'
  BY <1>1, <1>2, <1>3 DEF Counts
<1>6. ASSUME ~broken' PROVE Agrees'
  BY <1>1, <1>2, <1>4, <1>6 DEF Agrees
<1> QED BY <1>5, <1>6

LEMMA CallKeeps ==
  ASSUME EbpfInv, NEW t \in Threads, NEW a \in Functions, Call(t, a)
  PROVE  EbpfInv'
<1>0. PICK s, fs, ids, map : s = stacks[t] /\ fs = Read.forest[t] /\ ids = attached /\ map = ips
  OBVIOUS
<1>1. PICK entered, n, frame, ev :
        /\ entered = ProbesAt(a, "enter") /\ n = Cardinality(entered)
        /\ frame = [ip |-> a, start |-> calls + 1, hooked |-> ProbesAt(a, "exit") # {}, kids |-> <<>>]
        /\ ev = Record("enter", t, frame)
  OBVIOUS
<1>2. /\ stacks' = [stacks EXCEPT ![t] = Append(s, frame)]
      /\ submit(ev, n)
      /\ UNCHANGED <<probes, attached, pc, todo, forest, enabled, truth, seen>>
  BY <1>0, <1>1 DEF Call, command, report
<1>3. broken' \in BOOLEAN /\ (~broken' => ~broken /\ ((entered # {}) <=> frame.hooked))
  BY <1>1 DEF Call
<1>4. /\ IsFrame(frame) /\ frame.ip = a /\ frame.kids = <<>>
      /\ frame.hooked <=> ProbesAt(a, "exit") # {}
  BY <1>1, NothingIsSeq DEF IsFrame
<1>5. ev.kind = "enter" /\ ev.tid = t /\ ev.ip = a /\ ev.start = frame.start
  BY <1>1, <1>4 DEF Record
<1>6. /\ Shape /\ IsStacks(stacks) /\ IsFrames(s) /\ IsAcc(Read) /\ IsStack(fs) /\ IsRing(ring)
      /\ IsForest(forest) /\ IsSeq(attached) /\ lost \in BOOLEAN
  BY <1>0 DEF EbpfInv, Shape, IsStacks, IsAcc, IsForest
<1>7. EnterFirst /\ Handed
  BY DEF EbpfInv
<1>8. PICK ss, more : ss = stacks' /\ more = Append(s, frame)
  OBVIOUS
<1>9. /\ IsFrames(more) /\ Len(more) = Len(s) + 1 /\ Len(s) \in Nat
      /\ \A i \in 1..Len(s) : more[i] = s[i]
      /\ more[Len(s) + 1] = frame
  BY <1>4, <1>6, <1>8, FramePush
<1>10. /\ IsStacks(ss) /\ ss[t] = more
       /\ \A u \in Threads \ {t} : ss[u] = stacks[u]
  <2>1. LET r == [stacks EXCEPT ![t] = more]
        IN  IsStacks(r) /\ r[t] = more /\ \A u \in Threads \ {t} : r[u] = stacks[u]
    BY <1>6, <1>9, StacksUpdate
  <2> QED BY <1>2, <1>8, <2>1
<1>11. /\ IsRing(ring') /\ lost' \in BOOLEAN /\ (~lost' => ~lost)
       /\ n = 0 => ring' = ring
       /\ n = 1 /\ ~lost' => ring' = Append(ring, ev)
  <2>1. n \in Nat
    BY <1>1, ProbesFinite
  <2> QED BY <1>2, <1>5, <1>6, <2>1, Submitted
<1>12. Shape'
  <2>1. IsAcc(Read')
    BY <1>2, <1>6, <1>11, ReadAgain
  <2> QED BY <1>2, <1>3, <1>8, <1>10, <1>11, <2>1 DEF EbpfInv, Shape
<1>13. EnterFirst' /\ Handed'
  BY <1>2 DEF EbpfInv, EnterFirst, Handed
<1>14. Placed'
  <2>1. \A x : ProbesAt(x, "exit")' = ProbesAt(x, "exit")
    BY <1>2 DEF ProbesAt
  <2>2. ASSUME NEW u \in Threads, NEW k \in 1..Len(ss[u]), ss[u][k].hooked
        PROVE  ProbesAt(ss[u][k].ip, "exit") # {}
    <3>1. CASE u # t
      BY <1>10, <2>2, <3>1 DEF EbpfInv, Placed
    <3>2. CASE u = t /\ k = Len(s) + 1
      BY <1>4, <1>9, <1>10, <2>2, <3>2
    <3>3. CASE u = t /\ k # Len(s) + 1
      <4>1. k \in 1..Len(s) /\ ss[u][k] = s[k]
        BY <1>9, <1>10, <3>3
      <4> QED BY <1>0, <2>2, <4>1 DEF EbpfInv, Placed
    <3> QED BY <3>1, <3>2, <3>3
  <2> QED BY <1>8, <2>1, <2>2 DEF Placed
<1>15. ASSUME Attached, ~lost', OneName PROVE Counts' /\ (~broken' => Agrees')
  <2>1. Counts /\ (~broken => Agrees)
    BY <1>11, <1>15 DEF EbpfInv, Faithful
  <2>2. PICK v, w : v = Shown(ids, s) /\ w = Shown(ids, more)
    OBVIOUS
  <2>3. /\ Len(v) \in Nat /\ Len(w) = Len(v) + 1
        /\ \A i \in 1..Len(v) : w[i] = v[i]
        /\ w[Len(v) + 1].id = NameOf(ids, a) /\ w[Len(v) + 1].start = frame.start
        /\ w[Len(v) + 1].kids = frame.kids
        /\ Hooked(w) = IF Told(ids, frame) THEN Hooked(v) \cup {Len(v) + 1} ELSE Hooked(v)
    BY <1>4, <1>6, <1>8, <2>2, ShownPush
  <2>4. \A i \in Hooked(v) : w[i] = v[i]
    BY <2>3 DEF Hooked
  <2>5. Len(fs) \in Nat
    BY <1>6, SeqLen DEF IsStack
  <2>6. ASSUME Read' = Read, Unread' = Unread, ~Told(ids, frame)
        PROVE  Counts' /\ (~broken' => Agrees')
    <3>1. Hooked(w) = Hooked(v)
      BY <2>3, <2>6
    <3>2. Embeds(v, fs) => Embeds(w, fs)
      BY <2>4, <2>5, <3>1, EmbedsStill
    <3>3. Mirrors(v, fs) => Mirrors(w, fs)
      BY <2>4, <3>1, MirrorsStill
    <3> QED BY <1>0, <1>2, <1>3, <1>8, <1>10, <2>1, <2>2, <2>6, <3>2, <3>3, NoneEnds
  <2>7. CASE entered = {}
    <3>1. n = 0
      BY <1>1, <2>7, FS_EmptySet
    <3>2. Read' = Read /\ Unread' = Unread
      BY <1>2, <1>11, <3>1, ReadSame
    <3>3. ~frame.hooked
      <4>1. \A i \in ProbesAt(a, "exit") : i \in ProbesAt(a, "enter")
        BY <1>7 DEF ProbesAt, EnterFirst
      <4> QED BY <1>1, <1>4, <2>7, <4>1
    <3> QED BY <2>6, <3>2, <3>3 DEF Told
  <2>8. CASE entered # {}
    <3>1. PICK i : i \in entered
      BY <2>8
    <3>2. entered = {i} /\ i \in ToSet(attached) /\ Ip[i] = a
      BY <1>1, <1>7, <1>15, <3>1, OneProbe
    <3>3. n = 1
      BY <1>1, <3>2, FS_Singleton
    <3>4. ring' = Append(ring, ev)
      BY <1>11, <1>15, <3>3
    <3>5. /\ a \in DOMAIN map => map[a] = i
          /\ Knows(ids, a) <=> a \in DOMAIN map
          /\ NameOf(ids, a) = i
      BY <1>0, <1>6, <1>15, <3>2, Lookup
    <3>6. PICK acc : acc = TakeIn(map, Read, ev)
      OBVIOUS
    <3>7. Read' = acc /\ Unread' = Unread
      <4>1. Unread' = Unread + (IF ev.kind = "exit" /\ ev.ip \in DOMAIN map THEN 1 ELSE 0) /\ Read' = acc
        BY <1>0, <1>2, <1>6, <3>4, <3>6, ReadMore
      <4>2. Unread \in Nat
        <5>1. Len(ring) \in Nat
          BY <1>6, SeqLen DEF IsRing
        <5> QED BY <5>1, ExitsFinite DEF Unread, Exits
      <4>3. ev.kind # "exit"
        BY <1>5
      <4> QED BY <4>1, <4>2, <4>3
    <3>8. CASE a \notin DOMAIN map
      <4>1. acc = Read
        BY <1>5, <3>6, <3>8, TakeOther
      <4>2. ~Told(ids, frame)
        BY <1>4, <3>5, <3>8 DEF Told
      <4> QED BY <2>6, <3>7, <4>1, <4>2
    <3>9. CASE a \in DOMAIN map
      <4> DEFINE entry == [id |-> i, start |-> ev.start, kids |-> <<>>]
      <4>1. /\ acc.done = Read.done /\ acc.forest[t] = Append(fs, entry)
            /\ \A u \in Threads \ {t} : acc.forest[u] = Read.forest[u]
        BY <1>0, <1>5, <1>6, <3>5, <3>6, <3>9, TakeEnter
      <4>2. entry.id = w[Len(v) + 1].id /\ entry.start = w[Len(v) + 1].start /\ entry.kids = w[Len(v) + 1].kids
        BY <1>4, <1>5, <2>3, <3>5
      <4> HIDE DEF entry
      <4>3. PICK gs : gs = acc.forest[t]
        OBVIOUS
      <4>4. /\ Len(gs) = Len(fs) + 1
            /\ \A k \in 1..Len(fs) : gs[k] = fs[k]
            /\ gs[Len(fs) + 1] = entry
        <5>1. IsSeq(fs)
          BY <1>6 DEF IsStack
        <5> QED BY <4>1, <4>3, <5>1, AppendSeq
      <4>5. Told(ids, frame) <=> frame.hooked
        BY <1>4, <3>5, <3>9 DEF Told
      <4>6. Embeds(v, fs) => Embeds(w, gs)
        <5>1. CASE frame.hooked
          <6>1. Hooked(w) = Hooked(v) \cup {Len(v) + 1}
            BY <2>3, <4>5, <5>1
          <6>2. /\ \A k \in Hooked(v) : w[k].id = v[k].id
                /\ \A k \in 1..Len(fs) : gs[k].id = fs[k].id
                /\ gs[Len(fs) + 1].id = w[Len(v) + 1].id
                /\ Len(gs) = Len(fs) + 1 /\ Len(v) \in Nat
            BY <2>3, <2>4, <4>2, <4>4
          <6> QED BY <2>5, <6>1, <6>2, EmbedsPush
        <5>2. CASE ~frame.hooked
          <6>1. Hooked(w) = Hooked(v)
            BY <2>3, <4>5, <5>2
          <6>2. Len(gs) \in Nat /\ Len(fs) <= Len(gs)
            BY <2>5, <4>4
          <6> QED BY <2>4, <2>5, <4>4, <6>1, <6>2, EmbedsStill
        <5> QED BY <5>1, <5>2
      <4>7. frame.hooked /\ Mirrors(v, fs) => Mirrors(w, gs)
        <5> SUFFICES ASSUME frame.hooked, Mirrors(v, fs) PROVE Mirrors(w, gs)
          OBVIOUS
        <5>1. Hooked(w) = Hooked(v) \cup {Len(v) + 1}
          BY <2>3, <4>5
        <5>2. /\ gs[Len(fs) + 1].id = w[Len(v) + 1].id
              /\ gs[Len(fs) + 1].start = w[Len(v) + 1].start
              /\ gs[Len(fs) + 1].kids = w[Len(v) + 1].kids
          BY <4>2, <4>4
        <5> QED BY <2>3, <2>5, <4>4, <5>1, <5>2, MirrorsPush
      <4>8. ~broken' => frame.hooked
        BY <1>3, <2>8
      <4> QED BY <1>0, <1>2, <1>3, <1>8, <1>10, <2>1, <2>2, <3>7, <4>1, <4>3, <4>6, <4>7, <4>8, NoneEnds
    <3> QED BY <3>8, <3>9
  <2> QED BY <2>7, <2>8
<1>16. Faithful'
  <2>1. (Attached' <=> Attached) /\ (OneName' <=> OneName)
    BY <1>2 DEF Attached, OneName
  <2> QED BY <1>15, <2>1 DEF Faithful
<1> QED BY <1>12, <1>13, <1>14, <1>16 DEF EbpfInv

\* The rest of a stack keeps its uretprobes.
OneLess(s, left) ==
  Len(left) = Len(s) - 1 /\ \A i \in 1..Len(s) - 1 : left[i].ip = s[i].ip /\ left[i].hooked = s[i].hooked

LEMMA PlacedLess ==
  ASSUME EbpfInv, NEW t \in Threads, NEW ss, ss = stacks', OneLess(stacks[t], ss[t]),
         \A u \in Threads \ {t} : ss[u] = stacks[u],
         probes' = probes
  PROVE  Placed'
<1>1. \A x : ProbesAt(x, "exit")' = ProbesAt(x, "exit")
  BY DEF ProbesAt
<1>0. PICK s, left : s = stacks[t] /\ left = ss[t]
  OBVIOUS
<1>2. /\ IsFrames(s) /\ Len(left) = Len(s) - 1
      /\ \A i \in 1..Len(s) - 1 : left[i].ip = s[i].ip /\ left[i].hooked = s[i].hooked
  BY <1>0 DEF EbpfInv, Shape, IsStacks, OneLess
<1>3. Len(s) \in Nat
  BY <1>2, SeqLen DEF IsFrames
<1>4. ASSUME NEW u \in Threads, NEW k \in 1..Len(ss[u]), ss[u][k].hooked
      PROVE  ProbesAt(ss[u][k].ip, "exit") # {}
  <2>1. CASE u # t
    BY <1>4, <2>1 DEF EbpfInv, Placed
  <2>2. CASE u = t
    <3>1. k \in 1..Len(s) - 1 /\ k \in 1..Len(s)
      BY <1>0, <1>2, <1>3, <2>2
    <3>2. ss[u][k].ip = s[k].ip /\ s[k].hooked
      BY <1>0, <1>2, <1>4, <2>2, <3>1
    <3> QED BY <1>0, <3>1, <3>2 DEF EbpfInv, Placed
  <2> QED BY <2>1, <2>2
<1> QED BY <1>1, <1>4 DEF Placed

LEMMA ReturnKeeps ==
  ASSUME EbpfInv, NEW t \in Threads, Return(t)
  PROVE  EbpfInv'
<1>0. PICK s, fs, top, ids, map :
        s = stacks[t] /\ fs = Read.forest[t] /\ top = Last(s) /\ ids = attached /\ map = ips
  OBVIOUS
<1>1. PICK node, ev, fired, n :
        /\ node = Node(t, NameOf(ids, top.ip), top, ToldIn(ids, Front(s)) = {})
        /\ ev = Record("exit", t, top)
        /\ fired = IF top.hooked THEN ProbesAt(top.ip, "exit") ELSE {}
        /\ n = Cardinality(fired)
  OBVIOUS
<1>2. PICK left : left = Left(ids, s, node)
  OBVIOUS
<1>3. /\ s # <<>> /\ stacks' = [stacks EXCEPT ![t] = left]
      /\ submit(ev, n)
      /\ truth' = IF Told(ids, top) THEN Append(truth, node) ELSE truth
      /\ UNCHANGED <<probes, attached, pc, todo, forest, enabled, broken, seen>>
  BY <1>0, <1>1, <1>2 DEF Return, command, report, Left, Adopt, ToldIn
<1>4. ev.kind = "exit" /\ ev.tid = t /\ ev.ip = top.ip
  BY <1>1 DEF Record
<1>5. /\ Shape /\ IsStacks(stacks) /\ IsFrames(s) /\ IsAcc(Read) /\ IsStack(fs) /\ IsRing(ring)
      /\ IsSeq(seen) /\ IsSeq(truth) /\ IsSeq(Read.done) /\ IsForest(forest) /\ IsSeq(attached)
      /\ lost \in BOOLEAN
  BY <1>0 DEF EbpfInv, Shape, IsStacks, IsAcc, IsForest
<1>6. Returned(ids, s, left, node)
  BY <1>2, <1>3, <1>5, FrameReturn
<1>7. /\ IsFrames(left) /\ Len(left) = Len(s) - 1
      /\ \A i \in 1..Len(s) - 1 : left[i].ip = s[i].ip /\ left[i].hooked = s[i].hooked
  BY <1>6 DEF Returned
<1>8. PICK ss : ss = stacks'
  OBVIOUS
<1>9. /\ IsStacks(ss) /\ ss[t] = left
      /\ \A u \in Threads \ {t} : ss[u] = stacks[u]
  <2>1. LET r == [stacks EXCEPT ![t] = left]
        IN  IsStacks(r) /\ r[t] = left /\ \A u \in Threads \ {t} : r[u] = stacks[u]
    BY <1>5, <1>7, StacksUpdate
  <2> QED BY <1>3, <1>8, <2>1
<1>10. /\ IsRing(ring') /\ lost' \in BOOLEAN /\ (~lost' => ~lost)
       /\ n = 0 => ring' = ring
       /\ n = 1 /\ ~lost' => ring' = Append(ring, ev)
  <2>1. n \in Nat
    BY <1>1, ProbesFinite, FS_EmptySet
  <2> QED BY <1>3, <1>4, <1>5, <2>1, Submitted
<1>11. Shape'
  <2>1. IsAcc(Read')
    BY <1>3, <1>5, <1>10, ReadAgain
  <2>2. IsSeq(truth')
    BY <1>3, <1>5, AppendSeq
  <2> QED BY <1>3, <1>8, <1>9, <1>10, <2>1, <2>2 DEF EbpfInv, Shape
<1>12. EnterFirst' /\ Handed'
  BY <1>3 DEF EbpfInv, EnterFirst, Handed
<1>13. Placed'
  <2>1. OneLess(stacks[t], ss[t])
    BY <1>0, <1>7, <1>9 DEF OneLess
  <2> QED BY <1>3, <1>8, <1>9, <2>1, PlacedLess
<1>14. ASSUME Attached, ~lost', OneName PROVE Counts' /\ (~broken' => Agrees')
  <2>1. Counts /\ (~broken => Agrees)
    BY <1>10, <1>14 DEF EbpfInv, Faithful
  <2>2. PICK v, w : v = Shown(ids, s) /\ w = Shown(ids, left)
    OBVIOUS
  <2>3. /\ Len(v) \in Nat \ {0} /\ Len(v) = Len(s)
        /\ v[Len(v)].id = NameOf(ids, top.ip) /\ v[Len(v)].start = top.start
        /\ v[Len(v)].kids = top.kids
        /\ Len(v) \in Hooked(v) <=> Told(ids, top)
        /\ ToldIn(ids, Front(s)) = Hooked(v) \ {Len(v)}
    BY <1>0, <1>3, <1>5, <2>2, ShownLast
  <2>4. /\ Hooked(w) = Hooked(v) \ {Len(v)}
        /\ \A i \in Hooked(w) :
             /\ w[i].id = v[i].id /\ w[i].start = v[i].start
             /\ w[i].kids = IF Told(ids, top) /\ \A j \in Hooked(w) : j <= i
                            THEN Append(v[i].kids, node) ELSE v[i].kids
    <3>1. /\ Hooked(w) = Hooked(v) \ {Len(v)}
          /\ \A i \in Hooked(w) :
               /\ w[i].id = v[i].id /\ w[i].start = v[i].start
               /\ w[i].kids = IF Told(ids, Last(s)) /\ \A j \in Hooked(w) : j <= i
                              THEN Append(v[i].kids, node) ELSE v[i].kids
      BY <1>2, <1>3, <1>5, <2>2, ShownReturn
    <3> QED BY <1>0, <3>1
  <2>5. Len(fs) \in Nat
    BY <1>5, SeqLen DEF IsStack
  <2>6. Unread \in Nat
    <3>1. Len(ring) \in Nat
      BY <1>5, SeqLen DEF IsRing
    <3> QED BY <3>1, ExitsFinite DEF Unread, Exits
  <2>7. ASSUME top.hooked
        PROVE  \E i : /\ ring' = Append(ring, ev)
                      /\ top.ip \in DOMAIN map => map[top.ip] = i
                      /\ Knows(ids, top.ip) <=> top.ip \in DOMAIN map
                      /\ NameOf(ids, top.ip) = i
    <3>1. fired = ProbesAt(top.ip, "exit") /\ fired # {}
      <4>1. top = s[Len(s)] /\ Len(s) \in 1..Len(s)
        BY <1>0, <2>3 DEF Last
      <4> QED BY <1>0, <1>1, <2>7, <4>1 DEF EbpfInv, Placed
    <3>2. PICK i : i \in fired
      BY <3>1
    <3>3. fired = {i} /\ i \in ToSet(attached) /\ Ip[i] = top.ip
      BY <1>14, <3>1, <3>2, OneProbe DEF EbpfInv
    <3>4. n = 1
      BY <1>1, <3>3, FS_Singleton
    <3>5. /\ top.ip \in DOMAIN map => map[top.ip] = i
          /\ Knows(ids, top.ip) <=> top.ip \in DOMAIN map
          /\ NameOf(ids, top.ip) = i
      BY <1>0, <1>5, <1>14, <3>3, Lookup
    <3> QED BY <1>10, <1>14, <3>4, <3>5
  <2>8. CASE ~Told(ids, top)
    <3>1. truth' = truth
      BY <1>3, <2>8
    <3>2. Read' = Read /\ Unread' = Unread
      <4>1. CASE ~top.hooked
        <5>1. n = 0
          BY <1>1, <4>1, FS_EmptySet
        <5> QED BY <1>3, <1>10, <5>1, ReadSame
      <4>2. CASE top.hooked
        <5>1. ring' = Append(ring, ev) /\ top.ip \notin DOMAIN map
          BY <2>7, <2>8, <4>2 DEF Told
        <5>2. PICK acc : acc = TakeIn(map, Read, ev)
          OBVIOUS
        <5>3. acc = Read
          BY <1>4, <5>1, <5>2, TakeOther
        <5>4. /\ Read' = acc
              /\ Unread' = Unread + (IF ev.kind = "exit" /\ ev.ip \in DOMAIN map THEN 1 ELSE 0)
          BY <1>0, <1>3, <1>5, <5>1, <5>2, ReadMore
        <5>5. Unread' = Unread + 0
          BY <1>4, <5>1, <5>4
        <5> QED BY <2>6, <5>3, <5>4, <5>5
      <4>3. top.hooked \in BOOLEAN
        <5>1. IsFrame(top)
          BY <1>0, <1>3, <1>5, FramePop
        <5> QED BY <5>1 DEF IsFrame
      <4> QED BY <4>1, <4>2, <4>3
    <3>3. Hooked(w) = Hooked(v)
      BY <2>3, <2>4, <2>8
    <3>4. \A i \in Hooked(v) : /\ w[i].id = v[i].id /\ w[i].start = v[i].start
                               /\ w[i].kids = v[i].kids
      BY <2>4, <2>8, <3>3
    <3>5. Embeds(v, fs) => Embeds(w, fs)
      BY <2>5, <3>3, <3>4, EmbedsStill
    <3>6. Mirrors(v, fs) => Mirrors(w, fs)
      BY <3>3, <3>4, MirrorsStill
    <3> QED BY <1>0, <1>3, <1>8, <1>9, <2>1, <2>2, <3>1, <3>2, <3>5, <3>6, NoneEnds
  <2>9. CASE Told(ids, top)
    <3>1. PICK i : /\ ring' = Append(ring, ev)
                   /\ top.ip \in DOMAIN map /\ map[top.ip] = i /\ NameOf(ids, top.ip) = i
      BY <2>7, <2>9 DEF Told
    <3>2. truth' = Append(truth, node)
      BY <1>3, <2>9
    <3>3. /\ node.tid = t /\ node.id = i
          /\ node = Node(t, i, top, Hooked(v) \ {Len(v)} = {})
      BY <1>1, <2>3, <3>1 DEF Node
    <3>4. PICK a, x : a = TakeIn(map, Read, ev) /\ x = Exit(fs, t, i)
      OBVIOUS
    <3>5. Read' = a /\ Unread' = Unread + 1
      <4>1. /\ Read' = a
            /\ Unread' = Unread + (IF ev.kind = "exit" /\ ev.ip \in DOMAIN map THEN 1 ELSE 0)
        BY <1>0, <1>3, <1>5, <3>1, <3>4, ReadMore
      <4> QED BY <1>4, <3>1, <4>1
    <3>6. /\ \A m : x.done = <<m>> => a.done = Append(Read.done, m)
          /\ a.forest[t] = x.stack
          /\ \A u \in Threads \ {t} : a.forest[u] = Read.forest[u]
      BY <1>0, <1>4, <1>5, <3>1, <3>4, TakeExit
    <3>7. Embeds(v, fs) /\ Len(v) \in Hooked(v)
      BY <1>0, <2>1, <2>2, <2>3, <2>9 DEF Counts
    <3>8. Same(fs, i) # {}
      <4>1. \E j \in 1..Len(fs) : fs[j].id = v[Len(v)].id
        BY <3>7, EmbedsTop
      <4> QED BY <2>3, <3>1, <4>1 DEF Same
    <3>9. PICK c : c = Max(Same(fs, i))
      OBVIOUS
    <3>10. PICK m : m = Node(t, i, fs[c], c = 1)
      OBVIOUS
    <3>11. /\ c \in Same(fs, i) /\ \A j \in Same(fs, i) : j <= c
           /\ x.done = <<m>>
           /\ IsStack(x.stack) /\ Len(x.stack) = c - 1
           /\ \A j \in 1..c - 1 : x.stack[j].id = fs[j].id /\ x.stack[j].start = fs[j].start
           /\ \A j \in 1..c - 1 : x.stack[j].kids =
                                    IF j = c - 1 THEN Append(fs[j].kids, m) ELSE fs[j].kids
      BY <1>5, <3>4, <3>8, <3>9, <3>10, ExitHit
    <3>12. c \in 1..Len(fs) /\ fs[c].id = i
      BY <3>11 DEF Same
    <3>13. m.tid = t /\ m.id = i /\ a.done = Append(Read.done, m)
      BY <3>6, <3>10, <3>11 DEF Node
    <3>14. Embeds(w, a.forest[t])
      <4>1. \A j \in 1..Len(fs) : fs[j].id = v[Len(v)].id => j <= c
        BY <2>3, <3>1, <3>11 DEF Same
      <4>2. \A j \in 1..c - 1 : x.stack[j].id = fs[j].id
        BY <3>11
      <4>3. Len(v) \in Nat /\ Len(x.stack) = c - 1
        BY <2>3, <3>11
      <4>4. Hooked(w) = Hooked(v) \ {Len(v)} /\ \A j \in Hooked(w) : w[j].id = v[j].id
        BY <2>4
      <4>5. Embeds(w, x.stack)
        <5>1. c \in 1..Len(fs)
          BY <3>12
        <5> QED BY <2>5, <3>7, <4>1, <4>2, <4>3, <4>4, <5>1, EmbedsPop, SMTT(30)
      <4> QED BY <3>6, <4>5
    <3>15. ASSUME Mirrors(v, fs) PROVE m = node /\ Mirrors(w, a.forest[t])
      <4>1. /\ Len(fs) >= 1
            /\ fs[Len(fs)].id = i /\ fs[Len(fs)].start = top.start
            /\ fs[Len(fs)].kids = top.kids
            /\ Len(fs) = 1 <=> Hooked(v) \ {Len(v)} = {}
        <5>1. /\ Len(fs) >= 1
              /\ fs[Len(fs)].id = v[Len(v)].id /\ fs[Len(fs)].start = v[Len(v)].start
              /\ fs[Len(fs)].kids = v[Len(v)].kids
              /\ Len(fs) = 1 <=> Hooked(v) \ {Len(v)} = {}
          BY <2>3, <2>5, <3>7, <3>15, MirrorsTop
        <5> QED BY <2>3, <3>1, <5>1
      <4>2. c = Len(fs)
        <5>1. Len(fs) \in Same(fs, i)
          BY <2>5, <4>1 DEF Same
        <5> QED BY <2>5, <3>11, <3>12, <5>1
      <4>3. m = node
        <5>1. (c = 1) = (Hooked(v) \ {Len(v)} = {})
          BY <4>1, <4>2
        <5> QED BY <3>3, <3>10, <4>1, <4>2, <5>1 DEF Node
      <4>4. Popped(v, w, node)
        BY <2>3, <2>4, <2>9, <3>7 DEF Popped, Topmost
      <4>5. Closed(fs, x.stack, node)
        BY <2>5, <3>11, <4>2, <4>3 DEF Closed
      <4>6. Mirrors(w, x.stack)
        BY <3>15, <4>4, <4>5, MirrorsPop
      <4> QED BY <3>6, <4>3, <4>6
    <3>16. PICK old, new : old = AllSeen /\ new = AllSeen'
      OBVIOUS
    <3>17. new = Append(old, m) /\ IsSeq(old)
      <4>1. old = seen \o Read.done /\ new = seen \o Append(Read.done, m)
        BY <1>3, <3>5, <3>13, <3>16 DEF AllSeen
      <4>2. PICK d : d = Read.done
        OBVIOUS
      <4>3. IsSeq(seen \o d) /\ seen \o Append(d, m) = Append(seen \o d, m)
        BY <1>5, <4>2, ConcatSeq
      <4> QED BY <4>1, <4>2, <4>3
    <3>18. /\ Len(old) = Len(truth)
           /\ \A j \in 1..Len(truth) : old[j].tid = truth[j].tid /\ old[j].id = truth[j].id
           /\ Len(Read.done) = Unread
           /\ \A u \in Threads : Embeds(Shown(ids, stacks[u]), Read.forest[u])
      BY <1>0, <2>1, <3>16 DEF Counts
    <3>19. /\ Len(new) = Len(old) + 1 /\ Len(old) \in Nat /\ new[Len(old) + 1] = m
           /\ \A j \in 1..Len(old) : new[j] = old[j]
      BY <3>17, AppendSeq
    <3>20. /\ Len(truth') = Len(truth) + 1 /\ truth'[Len(truth) + 1] = node
           /\ \A j \in 1..Len(truth) : truth'[j] = truth[j]
      BY <1>5, <3>2, AppendSeq
    <3>21. Len(new) = Len(truth') /\ \A j \in 1..Len(truth') :
             new[j].tid = truth'[j].tid /\ new[j].id = truth'[j].id
      <4>1. \A j \in 1..Len(truth') : j = Len(old) + 1 \/ j \in 1..Len(old)
        BY <3>18, <3>19, <3>20
      <4>2. m.tid = node.tid /\ m.id = node.id
        BY <3>3, <3>13
      <4> QED BY <3>18, <3>19, <3>20, <4>1, <4>2
    <3>22. Len(a.done) = Len(Read.done) + 1
      BY <1>5, <3>13, AppendSeq
    <3>23. \A u \in Threads : Embeds(Shown(ids, ss[u]), a.forest[u])
      BY <1>9, <2>2, <3>6, <3>14, <3>18
    <3>24. Counts'
      BY <1>0, <1>3, <1>8, <3>5, <3>16, <3>18, <3>21, <3>22, <3>23 DEF Counts
    <3>25. ASSUME ~broken'
           PROVE  new = truth' /\ \A u \in Threads : Mirrors(Shown(ids, ss[u]), a.forest[u])
      <4>1. old = truth /\ \A u \in Threads : Mirrors(Shown(ids, stacks[u]), Read.forest[u])
        BY <1>0, <1>3, <2>1, <3>16, <3>25 DEF Agrees
      <4>2. m = node /\ Mirrors(w, a.forest[t])
        BY <1>0, <2>2, <3>15, <4>1
      <4> QED BY <1>9, <2>2, <3>2, <3>6, <3>17, <4>1, <4>2
    <3>26. ASSUME ~broken' PROVE Agrees'
      BY <1>0, <1>3, <1>8, <3>5, <3>16, <3>25, <3>26 DEF Agrees
    <3> QED BY <3>24, <3>26
  <2> QED BY <2>8, <2>9
<1>15. Faithful'
  <2>1. (Attached' <=> Attached) /\ (OneName' <=> OneName)
    BY <1>3 DEF Attached, OneName
  <2> QED BY <1>14, <2>1 DEF Faithful
<1> QED BY <1>11, <1>12, <1>13, <1>15 DEF EbpfInv

LEMMA PanicKeeps ==
  ASSUME EbpfInv, NEW t \in Threads, Panic(t)
  PROVE  EbpfInv'
<1>0. PICK s, fs, left, ids :
        s = stacks[t] /\ fs = Read.forest[t] /\ left = Front(s) /\ ids = attached
  OBVIOUS
<1>1. /\ s # <<>> /\ stacks' = [stacks EXCEPT ![t] = left]
      /\ broken' = (broken \/ Last(s).hooked)
      /\ UNCHANGED <<probes, ring, attached, pc, todo, forest, enabled, lost, truth, seen>>
  BY <1>0 DEF Panic, kernel, command, report
<1>2. /\ Shape /\ IsStacks(stacks) /\ IsFrames(s) /\ IsStack(fs)
  BY <1>0 DEF EbpfInv, Shape, IsStacks, IsAcc, IsForest
<1>3. /\ IsFrames(left) /\ Len(s) \in Nat \ {0} /\ Len(left) = Len(s) - 1
      /\ \A i \in 1..Len(s) - 1 : left[i] = s[i]
  BY <1>0, <1>1, <1>2, FramePop
<1>4. PICK ss : ss = stacks'
  OBVIOUS
<1>5. /\ IsStacks(ss) /\ ss[t] = left
      /\ \A u \in Threads \ {t} : ss[u] = stacks[u]
  <2>1. LET r == [stacks EXCEPT ![t] = left]
        IN  IsStacks(r) /\ r[t] = left /\ \A u \in Threads \ {t} : r[u] = stacks[u]
    BY <1>2, <1>3, StacksUpdate
  <2> QED BY <1>1, <1>4, <2>1
<1>6. broken' \in BOOLEAN /\ (~broken' => ~broken /\ ~Last(s).hooked)
  BY <1>1
<1>7. Read' = Read /\ Unread' = Unread
  BY <1>1, ReadSame
<1>8. Shape'
  BY <1>1, <1>2, <1>4, <1>5, <1>6, <1>7 DEF Shape
<1>9. EnterFirst' /\ Handed'
  BY <1>1 DEF EbpfInv, EnterFirst, Handed
<1>10. Placed'
  <2>1. OneLess(stacks[t], ss[t])
    BY <1>0, <1>3, <1>5 DEF OneLess
  <2> QED BY <1>1, <1>4, <1>5, <2>1, PlacedLess
<1>11. ASSUME Counts, ~broken => Agrees PROVE Counts' /\ (~broken' => Agrees')
  <2>1. PICK v, w, top : v = Shown(ids, s) /\ w = Shown(ids, left) /\ top = Last(s)
    OBVIOUS
  <2>2. /\ Len(v) \in Nat \ {0}
        /\ Hooked(w) = Hooked(v) \ {Len(v)}
        /\ \A i \in Hooked(w) : /\ w[i].id = v[i].id /\ w[i].start = v[i].start
                                /\ w[i].kids = v[i].kids
    BY <1>0, <1>1, <1>2, <2>1, ShownFront
  <2>3. Len(v) \in Hooked(v) <=> Told(ids, top)
    BY <1>1, <1>2, <2>1, ShownLast
  <2>4. Len(fs) \in Nat
    BY <1>2, SeqLen DEF IsStack
  <2>5. Embeds(v, fs) => Embeds(w, fs)
    <3>1. Hooked(w) \subseteq Hooked(v) /\ \A i \in Hooked(w) : w[i].id = v[i].id
      BY <2>2
    <3> QED BY <2>4, <3>1, EmbedsStill
  <2>6. ASSUME ~broken', Mirrors(v, fs) PROVE Mirrors(w, fs)
    <3>1. ~Told(ids, top)
      BY <1>6, <2>1, <2>6 DEF Told
    <3>2. Hooked(w) = Hooked(v)
      BY <2>2, <2>3, <3>1
    <3>3. \A i \in Hooked(v) : /\ w[i].id = v[i].id /\ w[i].start = v[i].start
                               /\ w[i].kids = v[i].kids
      BY <2>2, <3>2
    <3> QED BY <2>6, <3>2, <3>3, MirrorsStill
  <2> QED BY <1>0, <1>1, <1>4, <1>5, <1>6, <1>7, <1>11, <2>1, <2>5, <2>6, NoneEnds
<1>12. Faithful'
  <2>1. (Attached' <=> Attached) /\ (OneName' <=> OneName) /\ lost' = lost
    BY <1>1 DEF Attached, OneName
  <2> QED BY <1>11, <2>1 DEF EbpfInv, Faithful
<1> QED BY <1>8, <1>9, <1>10, <1>12 DEF EbpfInv

-----------------------------------------------------------------------------
(* The helper's steps.                                                     *)

LEMMA Unhooked ==
  ASSUME EbpfInv, NEW ids, release(ids)
  PROVE  /\ IsStacks(stacks') /\ Placed'
         /\ \A t \in Threads : Hooked(Shown(ids, stacks'[t])) = {}
<1>1. PICK ss : ss = stacks'
  OBVIOUS
<1>2. ss = [t \in Threads |-> [i \in 1..Len(stacks[t]) |-> [stacks[t][i] EXCEPT !.hooked = FALSE]]]
  BY <1>1 DEF release
<1>3. ss = [t \in Threads |-> ss[t]]
  BY <1>2
<1>4. ASSUME NEW t \in Threads PROVE IsFrames(ss[t]) /\ Hooked(ss[t]) = {}
  <2>1. PICK s : s = stacks[t]
    OBVIOUS
  <2>2. IsFrames(s)
    BY <2>1 DEF EbpfInv, Shape, IsStacks
  <2>3. ss[t] = [i \in 1..Len(s) |-> [s[i] EXCEPT !.hooked = FALSE]]
    BY <1>2, <2>1
  <2> QED BY <2>2, <2>3, FrameUnhook
<1>5. ASSUME NEW t \in Threads PROVE Hooked(Shown(ids, ss[t])) = {}
  <2>1. PICK s, v : s = ss[t] /\ v = Shown(ids, s)
    OBVIOUS
  <2>2. Hooked(v) = ToldIn(ids, s)
    BY <1>4, <2>1, ShownIs
  <2>3. ToldIn(ids, s) = {}
    BY <1>4, <2>1 DEF ToldIn, Told, Hooked
  <2> QED BY <2>1, <2>2, <2>3
<1>6. Placed'
  <2>1. \A t \in Threads : \A k \in 1..Len(ss[t]) : ~ss[t][k].hooked
    BY <1>4 DEF Hooked
  <2> QED BY <1>1, <2>1 DEF Placed
<1> QED BY <1>1, <1>3, <1>4, <1>5, <1>6 DEF IsStacks

\* A command that is over, or begins anew, with its probes.
LEMMA GoneKeeps ==
  ASSUME EbpfInv, detach, ~Attached', IsForest(forest'), IsSeq(seen'), IsSeq(truth'),
         lost' \in BOOLEAN, broken' \in BOOLEAN, enabled' \subseteq Ids, todo' = <<>>
  PROVE  EbpfInv'
<1>0. PICK ids : ids = <<>> /\ release(ids)
  BY DEF detach
<1>1. ring' = <<>> /\ probes' = {} /\ attached' = ids
  BY <1>0 DEF release
<1>2. IsRing(ring') /\ IsAcc(Read') /\ IsSeq(todo') /\ IsSeq(attached')
  BY <1>0, <1>1, ReadNothing
<1>3. IsStacks(stacks') /\ Placed'
  BY <1>0, Unhooked
<1>4. Shape'
  BY <1>2, <1>3 DEF Shape
<1>5. EnterFirst' /\ Handed'
  <2>1. 1..Len(todo') = {}
    OBVIOUS
  <2> QED BY <1>1, <2>1 DEF EnterFirst, Handed
<1>6. Faithful'
  BY DEF Faithful
<1> QED BY <1>3, <1>4, <1>5, <1>6 DEF EbpfInv

\* Steps that touch neither records nor calls.
LEMMA StillKeeps ==
  ASSUME EbpfInv,
         UNCHANGED <<stacks, probes, ring, attached, forest, seen, truth, lost, broken, todo>>,
         Attached' => Attached, enabled' \subseteq Ids, pc' # "attach" => todo = <<>>
  PROVE  EbpfInv'
<1>1. Read' = Read /\ Unread' = Unread
  BY ReadSame
<1>2. Shape'
  BY <1>1 DEF EbpfInv, Shape
<1>3. EnterFirst' /\ Handed' /\ Placed'
  BY DEF EbpfInv, EnterFirst, Handed, Placed, ProbesAt
<1>4. (Counts' <=> Counts) /\ (Agrees' <=> Agrees) /\ (OneName' <=> OneName)
  BY <1>1 DEF Counts, Agrees, AllSeen, OneName
<1>5. Faithful'
  BY <1>4 DEF EbpfInv, Faithful
<1> QED BY <1>2, <1>3, <1>5 DEF EbpfInv

\* An iteration that reads the ring.
LEMMA LoopKeeps ==
  ASSUME EbpfInv, pc = "loop", forest' = Read.forest, seen' = seen \o Read.done,
         UNCHANGED <<todo, enabled, lost, broken, truth>>,
         \/ ring' = <<>> /\ UNCHANGED <<probes, attached, stacks, pc>>
         \/ detach /\ pc' = "idle"
  PROVE  EbpfInv'
<1>1. /\ IsForest(forest') /\ IsSeq(seen') /\ IsSeq(truth') /\ lost' \in BOOLEAN
      /\ broken' \in BOOLEAN /\ enabled' \subseteq Ids /\ todo' = <<>>
  BY ConcatSeq DEF EbpfInv, Shape, IsAcc
<1>2. CASE detach /\ pc' = "idle"
  BY <1>1, <1>2, GoneKeeps DEF Attached
<1>3. CASE ring' = <<>> /\ UNCHANGED <<probes, attached, stacks, pc>>
  <2>1. /\ Read' = [forest |-> Read.forest, done |-> <<>>]
        /\ Unread' = 0 /\ IsRing(ring') /\ IsAcc(Read')
    BY <1>1, <1>3, ReadNothing
  <2>2. Read'.forest = Read.forest /\ Read'.done = <<>> /\ Len(Read'.done) = 0
    BY <2>1
  <2>3. AllSeen' = AllSeen
    <3>1. PICK d : d = seen \o Read.done
      OBVIOUS
    <3>2. IsSeq(d) /\ IsSeq(<<>>)
      BY <1>1, <3>1, NothingIsSeq
    <3>3. d \o <<>> = d
      BY <3>2, ConcatSeq
    <3> QED BY <2>2, <3>1, <3>3 DEF AllSeen
  <2>4. Shape'
    BY <1>1, <1>3, <2>1 DEF EbpfInv, Shape
  <2>5. EnterFirst' /\ Handed' /\ Placed'
    BY <1>3 DEF EbpfInv, EnterFirst, Handed, Placed, ProbesAt
  <2>6. (Counts => Counts') /\ (Agrees => Agrees')
    BY <1>3, <2>1, <2>2, <2>3 DEF Counts, Agrees
  <2>7. Faithful'
    BY <1>3, <2>6 DEF EbpfInv, Faithful, Attached, OneName
  <2> QED BY <2>4, <2>5, <2>7 DEF EbpfInv
<1> QED BY <1>2, <1>3

LEMMA TailSeq ==
  ASSUME NEW s, IsSeq(s), s # <<>>
  PROVE  /\ IsSeq(Tail(s)) /\ Len(Tail(s)) = Len(s) - 1 /\ Len(s) \in Nat \ {0}
         /\ \A i \in 1..Len(s) - 1 : Tail(s)[i] = s[i + 1]
         /\ Head(s) = s[1]
<1> DEFINE S == {s[i] : i \in 1..Len(s)}
<1>1. s \in Seq(S)
  BY DEF IsSeq
<1> HIDE DEF S
<1>2. Tail(s) \in Seq(S) /\ Len(Tail(s)) = Len(s) - 1 /\ Len(s) \in Nat \ {0} /\ Head(s) = s[1]
  BY <1>1
<1>3. \A i \in 1..Len(s) - 1 : Tail(s)[i] = s[i + 1]
  BY <1>1
<1> QED BY <1>2, <1>3, IsSeqOf

LEMMA AttachKeeps ==
  ASSUME EbpfInv, AttachNext
  PROVE  EbpfInv'
<1>1. /\ pc = "attach" /\ todo # <<>> /\ probes' = probes \cup {Head(todo)} /\ todo' = Tail(todo)
      /\ UNCHANGED <<stacks, ring, attached, pc, forest, enabled, lost, broken, truth, seen>>
  BY DEF AttachNext, program, report, history
<1>2. PICK a, b : a = todo /\ b = todo'
  OBVIOUS
<1>3. IsSeq(a) /\ a # <<>> /\ b = Tail(a)
  BY <1>1, <1>2 DEF EbpfInv, Shape
<1>4. /\ IsSeq(b) /\ Len(b) = Len(a) - 1 /\ Len(a) \in Nat \ {0}
      /\ \A i \in 1..Len(a) - 1 : b[i] = a[i + 1]
      /\ Head(a) = a[1]
  BY <1>3, TailSeq
<1>5. Read' = Read /\ Unread' = Unread
  BY <1>1, ReadSame
<1>6. Shape'
  BY <1>1, <1>2, <1>4, <1>5 DEF EbpfInv, Shape
<1>7. EnterFirst'
  <2> SUFFICES ASSUME NEW f \in Ids
               PROVE  /\ <<f, "exit">> \in probes' => <<f, "enter">> \in probes'
                      /\ \A i \in 1..Len(b) : b[i] = <<f, "exit">> =>
                           <<f, "enter">> \in probes' \/ \E j \in 1..i-1 : b[j] = <<f, "enter">>
    BY <1>2 DEF EnterFirst
  <2>1. /\ <<f, "exit">> \in probes => <<f, "enter">> \in probes
        /\ \A i \in 1..Len(a) : a[i] = <<f, "exit">> =>
             <<f, "enter">> \in probes \/ \E j \in 1..i-1 : a[j] = <<f, "enter">>
    BY <1>2 DEF EbpfInv, EnterFirst
  <2>2. probes' = probes \cup {a[1]} /\ 1 \in 1..Len(a) /\ 1..1-1 = {}
    BY <1>1, <1>2, <1>4
  <2>3. <<f, "exit">> \in probes' => <<f, "enter">> \in probes'
    BY <2>1, <2>2
  <2>4. ASSUME NEW i \in 1..Len(b), b[i] = <<f, "exit">>, <<f, "enter">> \notin probes'
        PROVE  \E j \in 1..i-1 : b[j] = <<f, "enter">>
    <3>1. i + 1 \in 1..Len(a) /\ a[i + 1] = <<f, "exit">>
      BY <1>4, <2>4
    <3>2. PICK j \in 1..(i + 1) - 1 : a[j] = <<f, "enter">>
      BY <2>1, <2>2, <2>4, <3>1
    <3>3. j # 1
      BY <2>2, <2>4, <3>2
    <3>4. j - 1 \in 1..i-1 /\ j - 1 \in 1..Len(a) - 1 /\ (j - 1) + 1 = j
      BY <1>4, <3>2, <3>3
    <3> QED BY <1>4, <3>2, <3>4
  <2> QED BY <2>3, <2>4
<1>8. Handed'
  <2>1. /\ 1 \in 1..Len(a) /\ probes' = probes \cup {a[1]}
        /\ \A k \in 1..Len(b) : k + 1 \in 1..Len(a) /\ b[k] = a[k + 1]
    BY <1>1, <1>2, <1>4
  <2>2. \A i \in Ids : /\ <<i, "enter">> \in probes => i \in ToSet(attached)
                       /\ \A k \in 1..Len(a) : a[k] = <<i, "enter">> => i \in ToSet(attached)
    BY <1>2 DEF EbpfInv, Handed
  <2> QED BY <1>1, <1>2, <2>1, <2>2 DEF Handed
<1>9. Placed'
  <2>1. \A x : ProbesAt(x, "exit") \subseteq ProbesAt(x, "exit")'
    BY <1>1 DEF ProbesAt
  <2>2. \A t \in Threads : \A k \in 1..Len(stacks[t]) :
          stacks[t][k].hooked => ProbesAt(stacks[t][k].ip, "exit") # {}
    BY DEF EbpfInv, Placed
  <2> QED BY <1>1, <2>1, <2>2 DEF Placed
<1>10. Faithful'
  BY <1>1, <1>5 DEF EbpfInv, Faithful, Counts, Agrees, AllSeen, Attached, OneName
<1> QED BY <1>6, <1>7, <1>8, <1>9, <1>10 DEF EbpfInv

\* The first ids are ids, each once, and no more than the limit.
LEMMA FirstItems ==
  ASSUME NEW ids, ids \subseteq Ids, NEW T, T = FirstOf(ids, MAX_ATTACH)
  PROVE  /\ IsSeq(T) /\ Len(T) \in 0..MAX_ATTACH
         /\ \A k \in 1..Len(T) : T[k] \in ids
         /\ \A k, l \in 1..Len(T) : T[k] = T[l] => k = l
<1> DEFINE n == Cardinality(ids)
           m == IF n > MAX_ATTACH THEN MAX_ATTACH ELSE n
           Upto(i) == {j \in ids : j <= i}
           rank == [i \in ids |-> Cardinality(Upto(i))]
           pick(k) == CHOOSE i \in ids : Cardinality(Upto(i)) = k
<1>0. MAX_ATTACH \in Nat /\ Len(SymbolTable) \in Nat
  BY EbpfAssumption
<1>1. IsFiniteSet(ids) /\ n \in Nat /\ \A i \in ids : i \in Nat
  <2>1. IsFiniteSet(Ids) /\ Ids \subseteq Nat
    BY <1>0, FS_Interval DEF Ids
  <2> QED BY <2>1, FS_Subset, FS_CardinalityType
<1>2. \A i \in ids : IsFiniteSet(Upto(i)) /\ Cardinality(Upto(i)) \in 1..n
  <2> SUFFICES ASSUME NEW i \in ids PROVE IsFiniteSet(Upto(i)) /\ Cardinality(Upto(i)) \in 1..n
    OBVIOUS
  <2>1. IsFiniteSet(Upto(i)) /\ Cardinality(Upto(i)) <= n
    <3>1. Upto(i) \in SUBSET ids
      OBVIOUS
    <3> HIDE DEF Upto
    <3> QED BY <1>1, <3>1, FS_Subset
  <2>2. i \in Upto(i)
    BY <1>1
  <2> HIDE DEF Upto
  <2>3. Cardinality(Upto(i)) \in Nat /\ Cardinality(Upto(i)) # 0
    BY <2>1, <2>2, FS_CardinalityType, FS_EmptySet
  <2> QED BY <1>1, <2>1, <2>3
<1>3. \A i, j \in ids : i < j => Cardinality(Upto(i)) # Cardinality(Upto(j))
  <2> SUFFICES ASSUME NEW i \in ids, NEW j \in ids, i < j
               PROVE  Cardinality(Upto(i)) # Cardinality(Upto(j))
    OBVIOUS
  <2>1. Upto(i) \in SUBSET Upto(j) /\ j \in Upto(j) /\ j \notin Upto(i)
    BY <1>1
  <2>2. IsFiniteSet(Upto(j))
    BY <1>2
  <2> HIDE DEF Upto
  <2> QED BY <2>1, <2>2, FS_Subset
<1> HIDE DEF Upto, n
<1>4. \A k \in 1..n : \E i \in ids : Cardinality(Upto(i)) = k
  <2>1. rank \in [ids -> 1..n]
    BY <1>2
  <2>2. \A i, j \in ids : rank[i] = rank[j] => i = j
    <3>1. \A i, j \in ids : i < j \/ j < i \/ i = j
      BY <1>1
    <3> QED BY <1>3, <3>1
  <2>3. rank \in Injection(ids, 1..n)
    <3> HIDE DEF rank
    <3>1. DOMAIN rank = ids
      BY <2>1
    <3> QED BY <2>1, <2>2, <3>1 DEF Injection, IsInjective
  <2>4. IsFiniteSet(1..n) /\ Cardinality(1..n) = n
    BY <1>1, FS_Interval
  <2>5. rank \in Surjection(ids, 1..n)
    <3> HIDE DEF rank
    <3> QED BY <2>3, <2>4, FS_Injection DEF n
  <2>6. \A k \in 1..n : \E i \in ids : rank[i] = k
    <3> HIDE DEF rank
    <3> QED BY <2>5 DEF Surjection
  <2> QED BY <2>6
<1>5. m \in Nat /\ m <= n /\ m <= MAX_ATTACH
  BY <1>0, <1>1
<1>6. T = [k \in 1..m |-> pick(k)]
  BY DEF FirstOf, n, Upto
<1> HIDE DEF m
<1>7. ASSUME NEW k \in 1..m PROVE T[k] \in ids /\ Cardinality(Upto(T[k])) = k
  <2>1. \E i \in ids : Cardinality(Upto(i)) = k
    BY <1>1, <1>4, <1>5
  <2>2. pick(k) \in ids /\ Cardinality(Upto(pick(k))) = k
    BY <2>1
  <2> HIDE DEF pick
  <2> QED BY <1>6, <2>2
<1>8. IsSeq(T) /\ Len(T) = m
  <2> HIDE DEF pick
  <2>1. DOMAIN T = 1..m /\ T = [k \in 1..m |-> T[k]]
    BY <1>6
  <2> QED BY <1>5, <2>1, SeqIs
<1>9. \A k, l \in 1..m : T[k] = T[l] => k = l
  BY <1>7
<1> QED BY <1>0, <1>5, <1>7, <1>8, <1>9

LEMMA TargetsItems ==
  ASSUME enabled \subseteq Ids, NEW r \in Requests
  PROVE  LET T == Targets(r)
         IN  /\ IsSeq(T) /\ Len(T) \in 0..MAX_ATTACH
             /\ \A k \in 1..Len(T) : T[k] \in Ids
             /\ \A k, l \in 1..Len(T) : T[k] = T[l] => k = l
<1>1. PICK T : T = Targets(r)
  OBVIOUS
<1>2. CASE r.verb = "dashboard"
  <2>1. T = FirstOf(enabled, MAX_ATTACH)
    BY <1>1, <1>2 DEF Targets
  <2> QED BY <1>1, <2>1, FirstItems
<1>3. CASE r.verb # "dashboard" /\ r.pattern # <<>>
  <2> DEFINE ids == {i \in 1..Len(SymbolTable) : keep_symbol(r.pattern, SymbolTable[i])}
  <2>1. T = FirstOf(ids, MAX_ATTACH)
    BY <1>1, <1>3 DEF Targets, Selected, select_ids
  <2>2. ids \subseteq Ids
    BY DEF Ids
  <2> HIDE DEF ids
  <2> QED BY <1>1, <2>1, <2>2, FirstItems
<1>4. CASE r.verb # "dashboard" /\ r.pattern = <<>>
  <2>1. T = <<>>
    BY <1>1, <1>4 DEF Targets, Selected, select_ids
  <2>2. IsSeq(T) /\ Len(T) = 0 /\ MAX_ATTACH \in Nat
    BY <2>1, NothingIsSeq, EbpfAssumption
  <2> QED BY <1>1, <2>2
<1> QED BY <1>2, <1>3, <1>4

LEMMA BeginKeeps ==
  ASSUME EbpfInv, NEW r \in Requests, Begin(r)
  PROVE  EbpfInv'
<1> DEFINE T == Targets(r)
           n == 2 * Len(T)
<1>1. Len(T) \in Nat /\ IsSeq(T)
  <2>1. enabled \subseteq Ids /\ MAX_ATTACH \in Nat
    BY EbpfAssumption DEF EbpfInv, Shape
  <2> QED BY <2>1, TargetsItems
<1>2. PICK g, td, fo : g = T /\ td = todo' /\ fo = forest'
  OBVIOUS
<1>3. /\ todo' = [k \in 1..n |-> <<g[(k + 1) \div 2], IF k % 2 = 1 THEN "enter" ELSE "exit">>]
      /\ forest' = [t \in Threads |-> <<>>]
      /\ lost' = FALSE /\ broken' = FALSE /\ truth' = <<>> /\ seen' = <<>>
      /\ enabled' = enabled
      /\ IF T = <<>> THEN pc' \in {"blind", "idle"} /\ UNCHANGED <<stacks, probes, ring, attached>>
         ELSE release(g) /\ pc' = "attach"
  BY <1>2 DEF Begin, Fresh, kernel
<1> HIDE DEF T
<1>4. IsForest(forest')
  <2>1. fo = [t \in Threads |-> fo[t]] /\ \A t \in Threads : fo[t] = <<>>
    BY <1>2, <1>3
  <2>2. \A t \in Threads : IsStack(fo[t])
    <3>1. IsSeq(<<>>) /\ 1..Len(<<>>) = {}
      BY NothingIsSeq
    <3> QED BY <2>1, <3>1 DEF IsStack
  <2> QED BY <1>2, <2>1, <2>2 DEF IsForest
<1>5. IsSeq(truth') /\ IsSeq(seen')
  BY <1>3, NothingIsSeq
<1>6. n \in Nat /\ DOMAIN td = 1..n
  BY <1>1, <1>2, <1>3
<1>7. IsSeq(td) /\ Len(td) = n
  <2>1. td = [k \in 1..n |-> td[k]]
    BY <1>2, <1>3
  <2> HIDE DEF n
  <2> QED BY <1>6, <2>1, SeqIs
<1>8. enabled' \subseteq Ids
  BY <1>3 DEF EbpfInv, Shape
<1>9. CASE T = <<>>
  <2>1. td = <<>>
    <3>1. n = 0
      BY <1>1, <1>9
    <3> QED BY <1>6, <1>7, <3>1 DEF IsSeq
  <2>2. IsAcc(Read')
    <3>1. IsRing(ring')
      BY <1>3, <1>9 DEF EbpfInv, Shape
    <3> QED BY <1>4, <3>1, ReadAgain
  <2>3. Shape'
    BY <1>2, <1>3, <1>4, <1>5, <1>7, <1>8, <1>9, <2>1, <2>2 DEF EbpfInv, Shape
  <2>4. EnterFirst' /\ Handed' /\ Placed'
    <3>1. 1..Len(todo') = {}
      BY <1>2, <2>1
    <3>2. UNCHANGED <<stacks, probes, attached>>
      BY <1>3, <1>9
    <3>3. EnterFirst' /\ Handed'
      BY <3>1, <3>2 DEF EbpfInv, EnterFirst, Handed
    <3>4. Placed'
      BY <3>2 DEF EbpfInv, Placed, ProbesAt
    <3> QED BY <3>3, <3>4
  <2>5. Faithful'
    BY <1>3, <1>9 DEF Faithful, Attached
  <2> QED BY <2>3, <2>4, <2>5 DEF EbpfInv
<1>10. CASE T # <<>>
  <2>1. /\ release(g) /\ ring' = <<>> /\ probes' = {} /\ pc' = "attach"
        /\ attached' = g /\ IsSeq(attached')
    BY <1>1, <1>2, <1>3, <1>10 DEF release
  <2>2. /\ IsStacks(stacks') /\ Placed'
        /\ \A t \in Threads : Hooked(Shown(g, stacks'[t])) = {}
    BY <2>1, Unhooked
  <2>3. /\ Read' = [forest |-> forest', done |-> <<>>]
        /\ Unread' = 0 /\ IsRing(ring') /\ IsAcc(Read') /\ IsSeq(<<>>)
    BY <1>4, <2>1, ReadNothing
  <2>4. Shape'
    BY <1>2, <1>3, <1>4, <1>5, <1>7, <1>8, <2>1, <2>2, <2>3 DEF Shape
  <2>5. EnterFirst'
    <3> SUFFICES ASSUME NEW f \in Ids, NEW i \in 1..Len(td), td[i] = <<f, "exit">>
                 PROVE  \E j \in 1..i-1 : td[j] = <<f, "enter">>
      BY <1>2, <2>1 DEF EnterFirst
    <3>1. \A k \in 1..n : td[k] = <<g[(k + 1) \div 2], IF k % 2 = 1 THEN "enter" ELSE "exit">>
      BY <1>2, <1>3
    <3>2. i \in 1..n /\ i \in Nat /\ i >= 1
      BY <1>6, <1>7
    <3>3. g[(i + 1) \div 2] = f /\ i % 2 # 1
      BY <3>1, <3>2
    <3>4. (i - 1) % 2 = 1 /\ ((i - 1) + 1) \div 2 = (i + 1) \div 2 /\ i - 1 >= 1
      BY <3>2, <3>3
    <3>5. i - 1 \in 1..n /\ i - 1 \in 1..i-1
      BY <1>6, <3>2, <3>4
    <3> QED BY <3>1, <3>3, <3>4, <3>5
  <2>6. /\ AllSeen' = <<>> /\ Len(<<>>) = 0 /\ Read'.done = <<>>
        /\ \A t \in Threads : Read'.forest[t] = <<>>
    <3>1. <<>> \o <<>> = <<>>
      OBVIOUS
    <3> QED BY <1>3, <2>3, <3>1 DEF AllSeen
  <2>7. \A s : Hooked(s) = {} => Embeds(s, <<>>) /\ Mirrors(s, <<>>)
    <3> SUFFICES ASSUME NEW s, Hooked(s) = {} PROVE Embeds(s, <<>>) /\ Mirrors(s, <<>>)
      OBVIOUS
    <3>1. 1..Len(<<>>) = {}
      OBVIOUS
    <3> DEFINE e == [i \in {} |-> 0]
    <3>2. e \in [{} -> {}]
      OBVIOUS
    <3> HIDE DEF e
    <3>3. Embeds(s, <<>>)
      BY <3>1, <3>2 DEF Embeds
    <3>4. Mirrors(s, <<>>)
      BY <3>1, <3>2 DEF Mirrors
    <3> QED BY <3>3, <3>4
  <2>8. Handed'
    <3> SUFFICES ASSUME NEW i \in Ids, NEW k \in 1..Len(td), td[k] = <<i, "enter">>
                 PROVE  i \in ToSet(g)
      BY <1>2, <2>1 DEF Handed
    <3>1. k \in 1..n /\ td[k] = <<g[(k + 1) \div 2], IF k % 2 = 1 THEN "enter" ELSE "exit">>
      BY <1>2, <1>3, <1>7
    <3>2. g[(k + 1) \div 2] = i
      BY <3>1
    <3>3. (k + 1) \div 2 \in 1..Len(g)
      <4>1. Len(g) = Len(T) /\ k \in 1..2 * Len(T)
        BY <1>2, <3>1
      <4> QED BY <1>1, <4>1
    <3>4. DOMAIN g = 1..Len(g)
      BY <1>1, <1>2 DEF IsSeq
    <3> QED BY <3>2, <3>3, <3>4 DEF ToSet
  <2>9. Faithful'
    BY <1>3, <2>1, <2>2, <2>3, <2>6, <2>7 DEF Faithful, Counts, Agrees
  <2> QED BY <2>2, <2>4, <2>5, <2>8, <2>9 DEF EbpfInv
<1> QED BY <1>9, <1>10

LEMMA InitHolds ==
  ASSUME EbpfInit
  PROVE  EbpfInv
<1>1. PICK s, f : s = stacks /\ f = forest
  OBVIOUS
<1>2. /\ s = [t \in Threads |-> s[t]] /\ f = [t \in Threads |-> f[t]]
      /\ \A t \in Threads : s[t] = <<>> /\ f[t] = <<>>
  BY <1>1 DEF EbpfInit
<1>3. IsSeq(<<>>) /\ 1..Len(<<>>) = {}
  BY NothingIsSeq
<1>4. IsStacks(stacks) /\ IsForest(forest)
  <2>1. \A t \in Threads : IsFrames(s[t]) /\ IsStack(f[t])
    BY <1>2, <1>3 DEF IsFrames, IsStack
  <2> QED BY <1>1, <1>2, <2>1 DEF IsStacks, IsForest
<1>5. IsRing(ring)
  BY <1>3 DEF EbpfInit, IsRing
<1>6. IsAcc(Read)
  <2>1. PICK map, start, batch :
          map = ips /\ start = [forest |-> forest, done |-> <<>>] /\ batch = ring
    OBVIOUS
  <2>2. IsAcc(start) /\ Read = Ingested(map, start, batch)
    BY <1>3, <1>4, <2>1 DEF IsAcc, Read, ingest
  <2> QED BY <1>5, <2>1, <2>2, ReadShape
<1>7. Shape
  BY <1>3, <1>4, <1>5, <1>6 DEF EbpfInit, Shape
<1>8. EnterFirst /\ Handed
  BY <1>3 DEF EbpfInit, EnterFirst, Handed
<1>9. Placed
  <2>1. \A t \in Threads : 1..Len(stacks[t]) = {}
    BY <1>1, <1>2, <1>3
  <2> QED BY <2>1 DEF Placed
<1>10. Faithful
  BY DEF EbpfInit, Faithful, Attached
<1> QED BY <1>7, <1>8, <1>9, <1>10 DEF EbpfInv

LEMMA ServerKeeps ==
  ASSUME EbpfInv, Server
  PROVE  EbpfInv'
<1>0. /\ enabled \subseteq Ids
      /\ pc # "attach" => todo = <<>>
      /\ IsForest(forest) /\ IsSeq(seen) /\ IsSeq(truth)
      /\ lost \in BOOLEAN /\ broken \in BOOLEAN
  BY DEF EbpfInv, Shape
<1>1. CASE EndSession
  BY <1>0, <1>1, StillKeeps
     DEF EndSession, program, kernel, command, report, history, Attached
<1>2. CASE AttachNext
  BY <1>2, AttachKeeps
<1>3. CASE AttachFails
  <2>1. /\ detach /\ todo' = <<>> /\ pc' \in {"blind", "idle"}
        /\ UNCHANGED <<forest, seen, truth, lost, broken, enabled>>
    BY <1>3 DEF AttachFails, report, history
  <2>2. ~Attached'
    BY <2>1 DEF Attached
  <2> QED BY <1>0, <2>1, <2>2, GoneKeeps
<1>4. CASE AttachDone
  <2>1. /\ pc = "attach" /\ todo = <<>>
        /\ UNCHANGED <<stacks, probes, ring, attached, forest, seen, truth, lost, broken, todo, enabled>>
    BY <1>4 DEF AttachDone, program, kernel, report, history
  <2>2. Attached
    BY <2>1 DEF Attached
  <2> QED BY <1>0, <2>1, <2>2, StillKeeps
<1>5. CASE WriteHead
  <2>1. /\ pc = "head"
        /\ UNCHANGED <<stacks, probes, ring, attached, forest, seen, truth, lost, broken, todo, enabled>>
    BY <1>5 DEF WriteHead, program, kernel, report, history
  <2>2. Attached
    BY <2>1 DEF Attached
  <2> QED BY <1>0, <2>1, <2>2, StillKeeps
<1>6. ASSUME StreamStep \/ CollectStep \/ MonitorIngest \/ DashboardFrame
      PROVE  EbpfInv'
  <2>1. /\ pc = "loop" /\ forest' = Read.forest /\ seen' = seen \o Read.done
        /\ UNCHANGED <<todo, enabled, lost, broken, truth>>
    BY <1>6 DEF StreamStep, CollectStep, MonitorIngest, DashboardFrame, Common, Read
  <2>2. \/ ring' = <<>> /\ UNCHANGED <<probes, attached, stacks, pc>>
        \/ detach /\ pc' = "idle"
    <3>1. CASE MonitorIngest
      BY <3>1 DEF MonitorIngest
    <3>2. CASE StreamStep \/ CollectStep \/ DashboardFrame
      <4>1. Finish \/ Again
        BY <3>2 DEF StreamStep, CollectStep, DashboardFrame, EndIteration
      <4> QED BY <4>1 DEF Finish, Again
    <3> QED BY <1>6, <3>1, <3>2
  <2> QED BY <2>1, <2>2, LoopKeeps
<1>7. CASE MonitorFrame
  <2>1. /\ pc = "loop" /\ UNCHANGED <<forest, seen, todo, enabled, lost, broken, truth>>
        /\ Finish \/ UNCHANGED <<stacks, probes, ring, attached, pc>>
    BY <1>7 DEF MonitorFrame, Common, kernel
  <2>2. todo' = <<>>
    BY <1>0, <2>1
  <2>3. CASE Finish
    <3>1. detach /\ ~Attached'
      BY <2>3 DEF Finish, Attached
    <3> QED BY <1>0, <2>1, <2>2, <3>1, GoneKeeps
  <2>4. CASE UNCHANGED <<stacks, probes, ring, attached, pc>>
    <3>1. Attached' => Attached
      BY <2>4 DEF Attached
    <3> QED BY <1>0, <2>1, <2>4, <3>1, StillKeeps
  <2> QED BY <2>1, <2>3, <2>4
<1>8. CASE BlindFrame
  <2>1. /\ pc' \in {"blind", "idle"} /\ pc = "blind"
        /\ UNCHANGED <<stacks, probes, ring, attached, forest, seen, truth, lost, broken, todo, enabled>>
    BY <1>8 DEF BlindFrame, Common, kernel
  <2>2. ~Attached' /\ pc # "attach"
    BY <2>1 DEF Attached
  <2> QED BY <1>0, <2>1, <2>2, StillKeeps
<1> QED BY <1>1, <1>2, <1>3, <1>4, <1>5, <1>6, <1>7, <1>8 DEF Server, LoopStep

LEMMA ClientKeeps ==
  ASSUME EbpfInv, Client
  PROVE  EbpfInv'
<1>0. /\ enabled \subseteq Ids
      /\ pc # "attach" => todo = <<>>
      /\ IsForest(forest) /\ IsSeq(seen) /\ IsSeq(truth)
      /\ lost \in BOOLEAN /\ broken \in BOOLEAN
  BY DEF EbpfInv, Shape
<1>1. CASE Connect \/ Leave
  <2>1. UNCHANGED <<stacks, probes, ring, attached, pc, forest, seen, truth, lost, broken, todo, enabled>>
    BY <1>1 DEF Connect, Leave, program, kernel, command, report, history
  <2>2. Attached' => Attached
    BY <2>1 DEF Attached
  <2> QED BY <1>0, <2>1, <2>2, StillKeeps
<1>2. ASSUME NEW r \in Requests, Mark(r) PROVE EbpfInv'
  <2>1. /\ UNCHANGED <<stacks, probes, ring, attached, pc, forest, seen, truth, lost, broken, todo>>
        /\ enabled' = IF r.verb = "on" THEN enabled \cup MarkedOn[r] ELSE enabled \ MarkedOff[r]
    BY <1>2 DEF Mark, program, kernel, report, history
  <2>2. MarkedOn[r] \subseteq Ids
    BY DEF MarkedOn, set_enabled, Ids
  <2>3. enabled' \subseteq Ids
    BY <1>0, <2>1, <2>2
  <2>4. Attached' => Attached
    BY <2>1 DEF Attached
  <2> QED BY <1>0, <2>1, <2>3, <2>4, StillKeeps
<1>3. ASSUME NEW r \in Requests, Stop(r) PROVE EbpfInv'
  <2>1. /\ detach /\ pc = "idle" /\ pc' = "stopped"
        /\ UNCHANGED <<todo, forest, seen, truth, lost, broken, enabled>>
    BY <1>3 DEF Stop, Ask, report, history
  <2>2. ~Attached' /\ todo' = <<>>
    BY <1>0, <2>1 DEF Attached
  <2> QED BY <1>0, <2>1, <2>2, GoneKeeps
<1>4. ASSUME NEW r \in Requests, Begin(r) PROVE EbpfInv'
  BY <1>4, BeginKeeps
<1> QED BY <1>1, <1>2, <1>3, <1>4 DEF Client

LEMMA StepKeeps ==
  ASSUME EbpfInv, [EbpfNext]_vars
  PROVE  EbpfInv'
<1>0. enabled \subseteq Ids /\ (pc # "attach" => todo = <<>>)
  BY DEF EbpfInv, Shape
<1>1. CASE Program
  BY <1>1, CallKeeps, ReturnKeeps, PanicKeeps DEF Program
<1>2. CASE Server
  BY <1>2, ServerKeeps
<1>3. CASE Client
  BY <1>3, ClientKeeps
<1>4. CASE Expire \/ Stopped \/ UNCHANGED vars
  <2>1. UNCHANGED <<stacks, probes, ring, attached, pc, forest, seen, truth, lost, broken, todo, enabled>>
    BY <1>4 DEF Expire, Stopped, vars, program, kernel, command, report, history
  <2>2. Attached' => Attached
    BY <2>1 DEF Attached
  <2> QED BY <1>0, <2>1, <2>2, StillKeeps
<1> QED BY <1>1, <1>2, <1>3, <1>4 DEF EbpfNext

-----------------------------------------------------------------------------
(* What the client is told.                                                *)

LEMMA SeqPrefix ==
  ASSUME NEW s, IsSeq(s), NEW u, IsSeq(u), Len(s) <= Len(u), \A i \in 1..Len(s) : s[i] = u[i]
  PROVE  IsPrefix(s, u)
<1>1. Len(s) \in 0..Len(s) /\ Len(s) \in 0..Len(u)
  BY SeqLen
<1>2. PICK a, b, n : a = SubSeq(s, 1, n) /\ b = SubSeq(u, 1, n) /\ n = Len(s)
  OBVIOUS
<1>3. /\ IsSeq(a) /\ Len(a) = n /\ \A i \in 1..n : a[i] = s[i]
      /\ IsSeq(b) /\ Len(b) = n /\ \A i \in 1..n : b[i] = u[i]
  BY <1>1, <1>2, PrefixSeq
<1>4. a = [i \in 1..n |-> a[i]] /\ b = [i \in 1..n |-> b[i]]
  BY <1>3, SeqLen
<1>5. a = b
  <2>1. \A i \in 1..n : a[i] = b[i]
    BY <1>2, <1>3
  <2> QED BY <1>4, <2>1
<1> QED BY <1>2, <1>5 DEF IsPrefix

LEMMA CountedSeq ==
  ASSUME NEW s, IsSeq(s)
  PROVE  IsSeq(Counted(s)) /\ Len(Counted(s)) = Len(s)
         /\ \A i \in 1..Len(s) : Counted(s)[i] = <<s[i].tid, s[i].id>>
<1>1. PICK c : c = Counted(s)
  OBVIOUS
<1>2. Len(s) \in Nat /\ c = [i \in 1..Len(s) |-> <<s[i].tid, s[i].id>>]
  BY <1>1, SeqLen DEF Counted
<1>3. DOMAIN c = 1..Len(s) /\ c = [i \in 1..Len(s) |-> c[i]]
  BY <1>2
<1>4. IsSeq(c) /\ Len(c) = Len(s)
  BY <1>2, <1>3, SeqIs
<1> QED BY <1>1, <1>2, <1>4

LEMMA InvCounts ==
  ASSUME EbpfInv
  PROVE  CountedIfNothingLost
<1> SUFFICES ASSUME pc = "loop", ~lost, OneName
             PROVE  IsPrefix(Counted(seen), Counted(truth)) /\ Len(truth) = Len(seen) + Unread
  BY DEF CountedIfNothingLost
<1>1. /\ Len(AllSeen) = Len(truth)
      /\ \A i \in 1..Len(truth) : AllSeen[i].tid = truth[i].tid /\ AllSeen[i].id = truth[i].id
      /\ Len(Read.done) = Unread
  BY DEF EbpfInv, Faithful, Counts, Attached
<1>2. IsSeq(seen) /\ IsSeq(truth) /\ IsSeq(Read.done)
  BY DEF EbpfInv, Shape, IsAcc
<1>3. PICK d, all : d = Read.done /\ all = seen \o d
  OBVIOUS
<1>4. /\ Len(all) = Len(seen) + Len(d) /\ Len(seen) \in Nat /\ Len(d) \in Nat
      /\ \A i \in 1..Len(seen) : all[i] = seen[i]
  BY <1>2, <1>3, ConcatItems
<1>5. AllSeen = all
  BY <1>3 DEF AllSeen
<1>6. Len(truth) = Len(seen) + Unread
  BY <1>1, <1>3, <1>4, <1>5
<1>7. PICK a, b : a = Counted(seen) /\ b = Counted(truth)
  OBVIOUS
<1>8. /\ IsSeq(a) /\ Len(a) = Len(seen) /\ \A i \in 1..Len(seen) : a[i] = <<seen[i].tid, seen[i].id>>
      /\ IsSeq(b) /\ Len(b) = Len(truth) /\ \A i \in 1..Len(truth) : b[i] = <<truth[i].tid, truth[i].id>>
  BY <1>2, <1>7, CountedSeq
<1>9. Len(truth) = Len(seen) + Len(d)
  BY <1>1, <1>4, <1>5
<1>10. \A i \in 1..Len(a) : i \in 1..Len(truth) /\ a[i] = b[i]
  <2>1. \A i \in 1..Len(seen) : i \in 1..Len(truth)
    BY <1>4, <1>9
  <2>2. Len(a) = Len(seen)
    BY <1>8
  <2>3. ASSUME NEW i \in 1..Len(seen) PROVE a[i] = b[i]
    <3>1. i \in 1..Len(truth) /\ all[i] = seen[i]
      BY <1>4, <2>1
    <3>2. seen[i].tid = truth[i].tid /\ seen[i].id = truth[i].id
      BY <1>1, <1>5, <3>1
    <3>3. a[i] = <<seen[i].tid, seen[i].id>> /\ b[i] = <<truth[i].tid, truth[i].id>>
      BY <1>8, <3>1
    <3> QED BY <3>2, <3>3
  <2> QED BY <2>1, <2>2, <2>3
<1>11. Len(a) <= Len(b)
  BY <1>4, <1>8, <1>9
<1> QED BY <1>6, <1>7, <1>8, <1>10, <1>11, SeqPrefix

LEMMA InvExact ==
  ASSUME EbpfInv
  PROVE  ExactIfUndisturbed
<1> SUFFICES ASSUME pc = "loop", ~lost, ~broken, OneName
             PROVE  IsPrefix(seen, truth) /\ Len(truth) = Len(seen) + Unread
  BY DEF ExactIfUndisturbed
<1>1. AllSeen = truth
  BY DEF EbpfInv, Faithful, Agrees, Attached
<1>2. IsSeq(seen) /\ IsSeq(truth) /\ IsSeq(Read.done)
  BY DEF EbpfInv, Shape, IsAcc
<1>3. PICK d : d = Read.done
  OBVIOUS
<1>4. truth = seen \o d
  BY <1>1, <1>3 DEF AllSeen
<1>5. /\ Len(truth) = Len(seen) + Len(d) /\ Len(seen) \in Nat /\ Len(d) \in Nat
      /\ \A i \in 1..Len(seen) : truth[i] = seen[i]
  BY <1>2, <1>3, <1>4, ConcatItems
<1>6. Len(truth) = Len(seen) + Unread
  BY InvCounts DEF CountedIfNothingLost
<1>7. Len(seen) <= Len(truth) /\ \A i \in 1..Len(seen) : seen[i] = truth[i]
  BY <1>5
<1> QED BY <1>2, <1>6, <1>7, SeqPrefix

\* With no record lost and no two of the symbols attached at one address, each
\* return from an object whose address the helper has right is reported once,
\* under its own function and thread, in the order of the returns, and none
\* other: frames that unwound calls left behind (Forest::exit drops them) take no
\* other call's return, and records whose address is not in the map
\* (BpfEngine::lookup answers None) disturb nothing.
THEOREM EveryReturnIsCounted == EbpfSpec => []CountedIfNothingLost
<1>1. EbpfSpec => []EbpfInv
  <2>1. EbpfInit => EbpfInv
    BY InitHolds
  <2>2. EbpfInv /\ [EbpfNext]_vars => EbpfInv'
    BY StepKeeps
  <2> QED BY <2>1, <2>2, PTL DEF EbpfSpec
<1>2. EbpfInv => CountedIfNothingLost
  BY InvCounts
<1> QED BY <1>1, <1>2, PTL

\* With no record lost, no call unwound or caught between the two probes of its
\* function and no two of the symbols attached at one address, the helper's calls
\* are the program's, those in objects whose address load_bias_from_maps has
\* right: each with its thread, its beginning and such calls inside it, though
\* the probes were attached one by one under calls already running (attach puts
\* the uprobe of a symbol before its uretprobe).
THEOREM TheCallsAreThePrograms == EbpfSpec => []ExactIfUndisturbed
<1>1. EbpfSpec => []EbpfInv
  <2>1. EbpfInit => EbpfInv
    BY InitHolds
  <2>2. EbpfInv /\ [EbpfNext]_vars => EbpfInv'
    BY StepKeeps
  <2> QED BY <2>1, <2>2, PTL DEF EbpfSpec
<1>2. EbpfInv => ExactIfUndisturbed
  BY InvExact
<1> QED BY <1>1, <1>2, PTL
-----------------------------------------------------------------------------
(* Reports: what is kept of the newest calls, and frames joined again.     *)

\* Two sequences are one if they agree at each place.
LEMMA SameItems ==
  ASSUME NEW s, IsSeq(s), NEW u, IsSeq(u), Len(s) = Len(u), \A i \in 1..Len(s) : s[i] = u[i]
  PROVE  s = u
<1>1. s = [i \in 1..Len(s) |-> s[i]] /\ u = [i \in 1..Len(u) |-> u[i]]
  BY SeqLen
<1>2. [i \in 1..Len(s) |-> s[i]] = [i \in 1..Len(u) |-> u[i]]
  OBVIOUS
<1> QED BY <1>1, <1>2

LEMMA ConcatAgain ==
  ASSUME NEW s, IsSeq(s), NEW u, IsSeq(u), NEW w, IsSeq(w)
  PROVE  (s \o u) \o w = s \o (u \o w)
<1> DEFINE S == {s[i] : i \in 1..Len(s)} \cup {u[i] : i \in 1..Len(u)} \cup {w[i] : i \in 1..Len(w)}
<1>1. s \in Seq(S) /\ u \in Seq(S) /\ w \in Seq(S)
  <2>1. /\ s \in Seq({s[i] : i \in 1..Len(s)}) /\ {s[i] : i \in 1..Len(s)} \subseteq S
        /\ u \in Seq({u[i] : i \in 1..Len(u)}) /\ {u[i] : i \in 1..Len(u)} \subseteq S
        /\ w \in Seq({w[i] : i \in 1..Len(w)}) /\ {w[i] : i \in 1..Len(w)} \subseteq S
    BY DEF IsSeq
  <2>2. \A A, B, x : A \subseteq B /\ x \in Seq(A) => x \in Seq(B)
    OBVIOUS
  <2> QED BY <2>1, <2>2
<1> HIDE DEF S
<1> QED BY <1>1

\* The newest of a sequence are its last, as many as there is room for.
LEMMA NewestItems ==
  ASSUME NEW s, IsSeq(s)
  PROVE  /\ IsSeq(Newest(s)) /\ Len(s) \in Nat /\ SAMPLE_CAP \in Nat
         /\ Len(Newest(s)) = IF Len(s) > SAMPLE_CAP THEN SAMPLE_CAP ELSE Len(s)
         /\ Len(Newest(s)) \in 0..Len(s)
         /\ \A i \in 1..Len(Newest(s)) : Newest(s)[i] = s[Len(s) - Len(Newest(s)) + i]
<1> DEFINE S == {s[i] : i \in 1..Len(s)}
           n == Len(s)
           k == IF n > SAMPLE_CAP THEN SAMPLE_CAP ELSE n
           m == IF n > SAMPLE_CAP THEN n - SAMPLE_CAP + 1 ELSE 1
<1>1. s \in Seq(S) /\ SAMPLE_CAP \in Nat
  BY EbpfAssumption DEF IsSeq
<1> HIDE DEF S
<1>2. n \in Nat /\ k \in 0..n /\ m = n - k + 1 /\ m \in 1..n + 1
  BY <1>1
<1>3. Newest(s) = SubSeq(s, m, n)
  BY DEF Newest
<1> HIDE DEF k, m
<1>4. SubSeq(s, m, n) \in Seq(S) /\ Len(SubSeq(s, m, n)) = k
  BY <1>1, <1>2
<1>5. ASSUME NEW i \in 1..k PROVE SubSeq(s, m, n)[i] = s[n - k + i]
  <2>1. SubSeq(s, m, n)[i] = s[m + i - 1]
    BY <1>1, <1>2
  <2>2. m + i - 1 = n - k + i
    BY <1>2
  <2> QED BY <2>1, <2>2
<1>6. IsSeq(SubSeq(s, m, n))
  BY <1>4, IsSeqOf
<1>7. PICK a : a = Newest(s)
  OBVIOUS
<1>8. IsSeq(a) /\ Len(a) = k /\ \A i \in 1..k : a[i] = s[n - k + i]
  BY <1>3, <1>4, <1>5, <1>6, <1>7
<1>9. k = IF n > SAMPLE_CAP THEN SAMPLE_CAP ELSE n
  BY DEF k
<1> QED BY <1>1, <1>2, <1>7, <1>8, <1>9

\* Older calls than the newest need not be kept for those to come.
LEMMA NewestOfNewest ==
  ASSUME NEW s, IsSeq(s), NEW d, IsSeq(d)
  PROVE  Newest(Newest(s) \o d) = Newest(s \o d)
<1>1. PICK w, u, v : w = Newest(s) /\ u = w \o d /\ v = s \o d
  OBVIOUS
<1>2. PICK n, l, k : n = Len(s) /\ l = Len(d) /\ k = Len(w)
  OBVIOUS
<1>3. /\ IsSeq(w) /\ n \in Nat /\ k \in 0..n /\ SAMPLE_CAP \in Nat
      /\ k = IF n > SAMPLE_CAP THEN SAMPLE_CAP ELSE n
      /\ \A i \in 1..k : w[i] = s[n - k + i]
  BY <1>1, <1>2, NewestItems, EbpfAssumption
<1>4. PICK x, y : x = Len(u) /\ y = Len(v)
  OBVIOUS
<1>5. /\ IsSeq(u) /\ x = k + l /\ l \in Nat
      /\ \A i \in 1..k : u[i] = w[i]
      /\ \A i \in 1..l : u[k + i] = d[i]
  <2>1. /\ IsSeq(w \o d) /\ Len(w \o d) = Len(w) + Len(d) /\ Len(d) \in Nat
        /\ \A i \in 1..Len(w) : (w \o d)[i] = w[i]
        /\ \A i \in 1..Len(d) : (w \o d)[Len(w) + i] = d[i]
    BY <1>3, ConcatItems
  <2> QED BY <1>1, <1>2, <1>4, <2>1
<1>6. /\ IsSeq(v) /\ y = n + l
      /\ \A i \in 1..n : v[i] = s[i]
      /\ \A i \in 1..l : v[n + i] = d[i]
  <2>1. /\ IsSeq(s \o d) /\ Len(s \o d) = Len(s) + Len(d)
        /\ \A i \in 1..Len(s) : (s \o d)[i] = s[i]
        /\ \A i \in 1..Len(d) : (s \o d)[Len(s) + i] = d[i]
    BY ConcatItems
  <2> QED BY <1>1, <1>2, <1>4, <2>1
<1>7. PICK a, b, p, q : a = Newest(u) /\ b = Newest(v) /\ p = Len(a) /\ q = Len(b)
  OBVIOUS
<1>8. /\ IsSeq(a) /\ p = IF x > SAMPLE_CAP THEN SAMPLE_CAP ELSE x
      /\ \A i \in 1..p : a[i] = u[x - p + i]
  <2>1. /\ IsSeq(Newest(u))
        /\ Len(Newest(u)) = IF Len(u) > SAMPLE_CAP THEN SAMPLE_CAP ELSE Len(u)
        /\ \A i \in 1..Len(Newest(u)) : Newest(u)[i] = u[Len(u) - Len(Newest(u)) + i]
    BY <1>5, NewestItems
  <2> QED BY <1>4, <1>7, <2>1
<1>9. /\ IsSeq(b) /\ q = IF y > SAMPLE_CAP THEN SAMPLE_CAP ELSE y
      /\ \A i \in 1..q : b[i] = v[y - q + i]
  <2>1. /\ IsSeq(Newest(v))
        /\ Len(Newest(v)) = IF Len(v) > SAMPLE_CAP THEN SAMPLE_CAP ELSE Len(v)
        /\ \A i \in 1..Len(Newest(v)) : Newest(v)[i] = v[Len(v) - Len(Newest(v)) + i]
    BY <1>6, NewestItems
  <2> QED BY <1>4, <1>7, <2>1
<1>10. p = q /\ p \in Nat /\ p <= x /\ k \in Nat /\ k <= n /\ x = k + l /\ y = n + l
  BY <1>3, <1>5, <1>6, <1>8, <1>9
<1>11. ASSUME NEW i \in 1..p PROVE a[i] = b[i]
  <2>1. PICK j : j = x - p + i
    OBVIOUS
  <2>2. j \in 1..x /\ (n - k) + j = y - q + i
    BY <1>3, <1>5, <1>10, <2>1
  <2>3. a[i] = u[j] /\ b[i] = v[(n - k) + j]
    <3>1. a[i] = u[x - p + i]
      BY <1>8
    <3>2. i \in 1..q
      BY <1>10
    <3>3. b[i] = v[y - q + i]
      BY <1>9, <3>2
    <3> QED BY <2>1, <2>2, <3>1, <3>3
  <2>4. CASE j \in 1..k
    <3>1. u[j] = s[(n - k) + j]
      BY <1>3, <1>5, <2>4
    <3>2. (n - k) + j \in 1..n
      BY <1>3, <1>10, <2>4
    <3> QED BY <1>6, <2>3, <3>1, <3>2
  <2>5. CASE j \notin 1..k
    <3>1. PICK m : m = j - k
      OBVIOUS
    <3>2. m \in 1..l /\ k + m = j /\ n + m = (n - k) + j
      BY <1>3, <1>5, <1>10, <2>2, <2>5, <3>1
    <3>3. u[k + m] = d[m] /\ v[n + m] = d[m]
      BY <1>5, <1>6, <3>2
    <3> QED BY <2>3, <3>2, <3>3
  <2> QED BY <2>4, <2>5
<1>12. a = b
  BY <1>7, <1>8, <1>9, <1>10, <1>11, SameItems
<1> QED BY <1>1, <1>7, <1>12

\* The running joins of FlattenSeq.
Joins(f, fs, n) ==
  \A k \in 1..n : f[k] = IF k = 1 THEN fs[k] ELSE f[k - 1] \o fs[k]

LEMMA JoinsOnce ==
  ASSUME NEW fs, NEW n \in Nat, NEW f, Joins(f, fs, n), NEW g, Joins(g, fs, n)
  PROVE  \A k \in 1..n : f[k] = g[k]
<1> DEFINE T == {k \in 1..n : f[k] # g[k]}
<1>1. SUFFICES ASSUME T # {} PROVE FALSE
  OBVIOUS
<1>2. PICK k \in T : \A m \in T : k <= m
  <2>1. T \subseteq Nat
    OBVIOUS
  <2> HIDE DEF T
  <2> QED BY <1>1, <2>1, Least
<1>3. CASE k = 1
  BY <1>3 DEF Joins
<1>4. CASE k # 1
  <2>1. k \in 1..n /\ k - 1 \in 1..n /\ ~ (k <= k - 1)
    BY <1>4
  <2>2. f[k - 1] = g[k - 1]
    BY <1>2, <2>1
  <2> QED BY <1>4, <2>1, <2>2 DEF Joins
<1> QED BY <1>3, <1>4

LEMMA JoinsEach ==
  ASSUME NEW fs, NEW n \in Nat
  PROVE  \E f : f = [k \in 1..n |-> f[k]] /\ Joins(f, fs, n)
<1> DEFINE Upto(m) == \E f : f = [k \in 1..m |-> f[k]] /\ Joins(f, fs, m)
           T == {m \in 0..n : ~Upto(m)}
<1>1. SUFFICES ASSUME T # {} PROVE FALSE
  OBVIOUS
<1>2. PICK m \in T : \A l \in T : m <= l
  <2>1. T \subseteq Nat
    OBVIOUS
  <2> HIDE DEF T
  <2> QED BY <1>1, <2>1, Least
<1>3. m # 0
  <2> DEFINE f == [k \in 1..0 |-> <<>>]
  <2>1. f = [k \in 1..0 |-> f[k]] /\ Joins(f, fs, 0)
    BY DEF Joins
  <2>2. Upto(0)
    <3> HIDE DEF f
    <3> QED BY <2>1
  <2> QED BY <2>2
<1>4. m \in 1..n /\ m - 1 \in 0..n /\ ~ (m <= m - 1)
  BY <1>3
<1>5. Upto(m - 1)
  BY <1>2, <1>4
<1>6. PICK g : g = [k \in 1..m - 1 |-> g[k]] /\ Joins(g, fs, m - 1)
  BY <1>5
<1> DEFINE f == [k \in 1..m |-> IF k = m THEN (IF k = 1 THEN fs[k] ELSE g[k - 1] \o fs[k]) ELSE g[k]]
<1>7. f = [k \in 1..m |-> f[k]]
  BY <1>4
<1>8. ASSUME NEW k \in 1..m
      PROVE  f[k] = IF k = 1 THEN fs[k] ELSE f[k - 1] \o fs[k]
  <2>1. k # 1 => k - 1 \in 1..m /\ k - 1 # m /\ f[k - 1] = g[k - 1]
    BY <1>4
  <2>2. CASE k = m
    <3>1. f[k] = IF k = 1 THEN fs[k] ELSE g[k - 1] \o fs[k]
      BY <2>2
    <3> HIDE DEF f
    <3> QED BY <2>1, <3>1
  <2>3. CASE k # m
    <3>1. k \in 1..m - 1 /\ f[k] = g[k]
      BY <1>4, <2>3
    <3>2. g[k] = IF k = 1 THEN fs[k] ELSE g[k - 1] \o fs[k]
      BY <1>6, <3>1 DEF Joins
    <3> HIDE DEF f
    <3> QED BY <2>1, <3>1, <3>2
  <2> QED BY <2>2, <2>3
<1>9. Upto(m)
  <2> HIDE DEF f
  <2> QED BY <1>7, <1>8 DEF Joins
<1> QED BY <1>9

LEMMA FlattenJoins ==
  ASSUME NEW fs, Len(fs) \in Nat \ {0}
  PROVE  \E f : Joins(f, fs, Len(fs)) /\ FlattenSeq(fs) = f[Len(fs)]
<1> DEFINE n == Len(fs)
           F(f) == [k \in 1..n |-> IF k = 1 THEN fs[k] ELSE f[k - 1] \o fs[k]]
           h == CHOOSE f : f = F(f)
<1>1. PICK g : g = [k \in 1..n |-> g[k]] /\ Joins(g, fs, n)
  BY JoinsEach
<1>2. g = F(g)
  BY <1>1 DEF Joins
<1>3. h = F(h)
  <2> HIDE DEF F
  <2> QED BY <1>2
<1>4. FlattenSeq(fs) = h[n]
  BY DEF FlattenSeq
<1> HIDE DEF h
<1>5. Joins(h, fs, n)
  BY <1>3 DEF Joins
<1> QED BY <1>4, <1>5

LEMMA FlattenNone ==
  FlattenSeq(<<>>) = <<>>
BY DEF FlattenSeq

\* A sequence more is joined on at the end.
LEMMA FlattenMore ==
  ASSUME NEW fs, IsSeq(fs), NEW x, IsSeq(x)
  PROVE  FlattenSeq(Append(fs, x)) = FlattenSeq(fs) \o x
<1>1. PICK n, more : n = Len(fs) /\ more = Append(fs, x)
  OBVIOUS
<1>2. /\ n \in Nat /\ Len(more) = n + 1 /\ more[n + 1] = x
      /\ \A k \in 1..n : more[k] = fs[k]
  BY <1>1, AppendSeq
<1>3. PICK g : Joins(g, more, n + 1) /\ FlattenSeq(more) = g[n + 1]
  BY <1>2, FlattenJoins
<1>4. n + 1 \in 1..n + 1 /\ (n + 1) - 1 = n
  BY <1>2
<1>5. CASE n = 0
  <2>1. fs = <<>>
    BY <1>1, <1>5 DEF IsSeq
  <2>2. FlattenSeq(fs) \o x = x
    <3>1. <<>> \o x = x
      BY DEF IsSeq
    <3> QED BY <2>1, <3>1, FlattenNone
  <2>3. g[n + 1] = x
    BY <1>2, <1>3, <1>4, <1>5 DEF Joins
  <2> QED BY <1>1, <1>3, <2>2, <2>3
<1>6. CASE n # 0
  <2>1. PICK f : Joins(f, fs, n) /\ FlattenSeq(fs) = f[n]
    BY <1>1, <1>2, <1>6, FlattenJoins
  <2>2. Joins(g, fs, n)
    <3>1. \A k \in 1..n : k \in 1..n + 1
      BY <1>2
    <3> QED BY <1>2, <1>3, <3>1 DEF Joins
  <2>3. f[n] = g[n]
    <3>1. n \in 1..n
      BY <1>2, <1>6
    <3>2. \A k \in 1..n : f[k] = g[k]
      BY <1>2, <2>1, <2>2, JoinsOnce
    <3> QED BY <3>1, <3>2
  <2>4. g[n + 1] = g[n] \o x
    <3>1. \A k \in 1..n + 1 : k # 1 => g[k] = g[k - 1] \o more[k]
      BY <1>3 DEF Joins
    <3>2. n + 1 # 1
      BY <1>2, <1>6
    <3> QED BY <1>2, <1>4, <3>1, <3>2
  <2> QED BY <1>1, <1>3, <2>1, <2>3, <2>4
<1> QED BY <1>5, <1>6

LEMMA FlattenIsSeq ==
  ASSUME NEW fs, IsSeq(fs), \A i \in 1..Len(fs) : IsSeq(fs[i])
  PROVE  IsSeq(FlattenSeq(fs))
<1>1. PICK n : n = Len(fs)
  OBVIOUS
<1>2. n \in Nat
  BY <1>1 DEF IsSeq
<1>3. CASE n = 0
  <2>1. fs = <<>>
    BY <1>1, <1>3 DEF IsSeq
  <2> QED BY <2>1, FlattenNone, NothingIsSeq
<1>4. CASE n # 0
  <2>1. PICK f : Joins(f, fs, n) /\ FlattenSeq(fs) = f[n]
    BY <1>1, <1>2, <1>4, FlattenJoins
  <2> DEFINE T == {k \in 1..n : ~IsSeq(f[k])}
  <2>2. T = {}
    <3> SUFFICES ASSUME T # {} PROVE FALSE
      OBVIOUS
    <3>1. PICK k \in T : \A m \in T : k <= m
      <4>1. T \subseteq Nat
        OBVIOUS
      <4> HIDE DEF T
      <4> QED BY <4>1, Least
    <3>2. k \in 1..n /\ IsSeq(fs[k])
      BY <1>1
    <3>3. CASE k = 1
      BY <2>1, <3>2, <3>3 DEF Joins
    <3>4. CASE k # 1
      <4>1. k - 1 \in 1..n /\ ~ (k <= k - 1)
        BY <1>2, <3>2, <3>4
      <4>2. IsSeq(f[k - 1])
        BY <3>1, <4>1
      <4>3. f[k] = f[k - 1] \o fs[k]
        BY <2>1, <3>2, <3>4 DEF Joins
      <4>4. IsSeq(f[k])
        BY <3>2, <4>2, <4>3, ConcatSeq
      <4> QED BY <4>4
    <3> QED BY <3>3, <3>4
  <2>3. n \in 1..n
    BY <1>2, <1>4
  <2> QED BY <2>1, <2>2, <2>3
<1> QED BY <1>3, <1>4

-----------------------------------------------------------------------------
(* The invariant of the reports, beside EbpfInv.                           *)

Kinds == {"enter", "exit"}
Over == pc \in {"idle", "stopped"}

Bounds ==
  /\ \A t \in Threads : Len(stacks[t]) <= MaxDepth
  /\ calls \in 0..MaxCalls /\ Len(ring) <= RingSize /\ requests \in 0..MaxRequests
  /\ pc \in {"idle", "attach", "head", "loop", "blind", "stopped"}
  /\ due \in BOOLEAN /\ client \in {"none", "here", "gone"}

\* What is printed is less than asked for, until the command is over.
Room ==
  /\ printed \in Nat /\ req.count \in Nat
  /\ ~Over /\ req.count > 0 => printed < req.count

\* The probes in place and those to come are of the symbols selected, each
\* to be placed once.
Placing ==
  /\ probes \subseteq Ids \X Kinds
  /\ \A i \in 1..Len(todo) : todo[i] \in Ids \X Kinds /\ todo[i] \notin probes
  /\ \A i, j \in 1..Len(todo) : todo[i] = todo[j] => i = j
  /\ \E S \in SUBSET Ids :
       /\ Cardinality(S) <= MAX_ATTACH
       /\ \A p \in probes : p[1] \in S
       /\ \A i \in 1..Len(todo) : todo[i][1] \in S

\* A dashboard shows a call at once.
Covering ==
  /\ IsSeq(buf) /\ IsSeq(frames) /\ \A i \in 1..Len(frames) : IsSeq(frames[i])
  /\ pc = "blind" => req.verb = "dashboard"
  /\ req.verb = "dashboard" => buf = <<>>
  /\ ReportsCoverSeen

ReportInv == Bounds /\ Room /\ Placing /\ Covering

-----------------------------------------------------------------------------
(* Bounds, and what is printed.                                            *)

Bounded(s) == \A t \in Threads : Len(s[t]) <= MaxDepth

\* One stack of the program is another.
LEMMA BoundedUpdate ==
  ASSUME EbpfInv, Bounded(stacks), NEW t \in Threads, NEW x, IsFrames(x), Len(x) <= MaxDepth,
         stacks' = [stacks EXCEPT ![t] = x]
  PROVE  Bounded(stacks')
<1>1. IsStacks(stacks)
  BY DEF EbpfInv, Shape
<1>2. stacks'[t] = x /\ \A u \in Threads \ {t} : stacks'[u] = stacks[u]
  BY <1>1 DEF IsStacks
<1> QED BY <1>2 DEF Bounded

LEMMA ProgramBounds ==
  ASSUME EbpfInv, Bounded(stacks), calls \in 0..MaxCalls, Len(ring) <= RingSize, Program
  PROVE  Bounded(stacks') /\ calls' \in 0..MaxCalls /\ Len(ring') <= RingSize
<1>1. /\ IsStacks(stacks) /\ IsSeq(ring) /\ \A t \in Threads : IsFrames(stacks[t])
      /\ MaxDepth \in Nat /\ MaxCalls \in Nat /\ RingSize \in Nat
  BY EbpfAssumption DEF EbpfInv, Shape, IsStacks, IsRing
<1>2. ASSUME NEW kind \in Kinds, NEW t \in Threads, NEW frame, NEW S, S \subseteq Ids,
             submit(Record(kind, t, frame), Cardinality(S))
      PROVE  Len(ring') <= RingSize
  <2>1. PICK ev, n : ev = Record(kind, t, frame) /\ n = Cardinality(S)
    OBVIOUS
  <2>2. ev.tid = t /\ ev.kind = kind
    BY <2>1 DEF Record
  <2>3. n \in Nat
    <3>1. IsFiniteSet(Ids)
      <4>1. Len(SymbolTable) \in Nat
        BY EbpfAssumption
      <4> QED BY <4>1, FS_Interval DEF Ids
    <3> QED BY <1>2, <2>1, <3>1, FS_Subset, FS_CardinalityType
  <2>4. IsRing(ring) /\ lost \in BOOLEAN
    BY DEF EbpfInv, Shape
  <2>5. submit(ev, n)
    BY <1>2, <2>1
  <2>6. Len(ring) <= RingSize => Len(ring') <= RingSize
    BY <2>2, <2>3, <2>4, <2>5, Submitted DEF Kinds
  <2> QED BY <2>6
<1>3. ASSUME NEW t \in Threads, NEW a \in Functions, Call(t, a)
      PROVE  Bounded(stacks') /\ calls' \in 0..MaxCalls /\ Len(ring') <= RingSize
  <2> DEFINE frame == [ip |-> a, start |-> calls + 1, hooked |-> ProbesAt(a, "exit") # {}, kids |-> <<>>]
             x == Append(stacks[t], frame)
  <2>1. IsFrame(frame)
    BY NothingIsSeq DEF IsFrame
  <2>2. /\ stacks' = [stacks EXCEPT ![t] = x] /\ calls' = calls + 1 /\ calls < MaxCalls
        /\ Len(stacks[t]) < MaxDepth
        /\ submit(Record("enter", t, frame), Cardinality(ProbesAt(a, "enter")))
    BY <1>3 DEF Call
  <2> HIDE DEF frame
  <2>3. IsFrames(x) /\ Len(x) = Len(stacks[t]) + 1 /\ Len(stacks[t]) \in Nat
    BY <1>1, <2>1, FramePush
  <2>4. Len(x) <= MaxDepth
    BY <1>1, <2>2, <2>3
  <2> HIDE DEF x
  <2>5. Bounded(stacks')
    BY <2>2, <2>3, <2>4, BoundedUpdate
  <2>6. Len(ring') <= RingSize
    <3>1. PICK kind \in Kinds : kind = "enter"
      BY DEF Kinds
    <3>2. PICK S : S = ProbesAt(a, "enter")
      OBVIOUS
    <3>3. S \subseteq Ids
      BY <3>2 DEF ProbesAt
    <3>4. submit(Record(kind, t, frame), Cardinality(S))
      BY <2>2, <3>1, <3>2
    <3> QED BY <1>2, <3>3, <3>4
  <2> QED BY <1>1, <2>2, <2>5, <2>6
<1>4. ASSUME NEW t \in Threads, Return(t)
      PROVE  Bounded(stacks') /\ calls' \in 0..MaxCalls /\ Len(ring') <= RingSize
  <2>1. PICK ids, top, node, S, kind :
          /\ ids = attached /\ top = Last(stacks[t]) /\ kind = "exit"
          /\ node = Node(t, NameOf(ids, top.ip), top, ToldIn(ids, Front(stacks[t])) = {})
          /\ S = IF top.hooked THEN ProbesAt(top.ip, "exit") ELSE {}
    OBVIOUS
  <2>2. PICK x : x = Left(ids, stacks[t], node)
    OBVIOUS
  <2>3. /\ stacks' = [stacks EXCEPT ![t] = x] /\ calls' = calls /\ stacks[t] # <<>>
        /\ submit(Record(kind, t, top), Cardinality(S))
    BY <1>4, <2>1, <2>2 DEF Return, Left, Adopt, ToldIn
  <2>4. Returned(ids, stacks[t], x, node)
    BY <1>1, <2>2, <2>3, FrameReturn
  <2>5. IsFrames(x) /\ Len(x) = Len(stacks[t]) - 1
    BY <2>4 DEF Returned
  <2>6. Len(x) <= MaxDepth
    BY <1>1, <2>5, SeqLen DEF Bounded, IsFrames
  <2>7. Bounded(stacks')
    BY <2>3, <2>5, <2>6, BoundedUpdate
  <2>8. Len(ring') <= RingSize
    <3>1. S \subseteq Ids /\ kind \in Kinds
      BY <2>1 DEF ProbesAt, Kinds
    <3> QED BY <1>2, <2>3, <3>1
  <2> QED BY <2>3, <2>7, <2>8
<1>5. ASSUME NEW t \in Threads, Panic(t)
      PROVE  Bounded(stacks') /\ calls' \in 0..MaxCalls /\ Len(ring') <= RingSize
  <2> DEFINE x == Front(stacks[t])
  <2>1. /\ stacks[t] # <<>> /\ stacks' = [stacks EXCEPT ![t] = x] /\ calls' = calls /\ ring' = ring
    BY <1>5 DEF Panic, kernel
  <2>2. IsFrames(x) /\ Len(x) = Len(stacks[t]) - 1 /\ Len(stacks[t]) \in Nat
    <3>1. PICK ids : ids = attached
      OBVIOUS
    <3> QED BY <1>1, <2>1, FramePop
  <2>3. Len(x) <= MaxDepth
    BY <1>1, <2>2 DEF Bounded
  <2> HIDE DEF x
  <2>4. Bounded(stacks')
    BY <2>1, <2>2, <2>3, BoundedUpdate
  <2> QED BY <2>1, <2>4
<1> QED BY <1>3, <1>4, <1>5 DEF Program

\* What the helper does to the program and the kernel's ring.
LEMMA HelperSteps ==
  ASSUME Server \/ Client \/ Expire \/ Stopped \/ UNCHANGED vars
  PROVE  /\ calls' = calls /\ (stacks' = stacks \/ \E ids : release(ids))
         /\ ring' = ring \/ ring' = <<>>
<1>1. CASE EndSession \/ AttachNext \/ AttachFails \/ AttachDone \/ WriteHead
  BY <1>1 DEF EndSession, AttachNext, AttachFails, AttachDone, WriteHead, program, kernel, detach, release
<1>2. CASE StreamStep \/ CollectStep \/ DashboardFrame
  <2>1. calls' = calls /\ (Finish \/ Again)
    BY <1>2 DEF StreamStep, CollectStep, DashboardFrame, EndIteration, Common
  <2> QED BY <2>1 DEF Finish, Again, detach, release
<1>3. CASE MonitorIngest \/ MonitorFrame \/ BlindFrame
  BY <1>3 DEF MonitorIngest, MonitorFrame, BlindFrame, Common, kernel, Finish, detach, release
<1>4. CASE Connect \/ Leave
  BY <1>4 DEF Connect, Leave, program, kernel
<1>5. CASE \E r \in Requests : Mark(r) \/ Stop(r) \/ Begin(r)
  BY <1>5 DEF Mark, Stop, Begin, program, kernel, detach, release
<1>6. CASE Expire \/ Stopped \/ UNCHANGED vars
  BY <1>6 DEF Expire, Stopped, vars, program, kernel
<1> QED BY <1>1, <1>2, <1>3, <1>4, <1>5, <1>6 DEF Server, LoopStep, Client

LEMMA ReleaseBounds ==
  ASSUME EbpfInv, Bounded(stacks), NEW ids, release(ids)
  PROVE  Bounded(stacks')
<1> SUFFICES ASSUME NEW t \in Threads PROVE Len(stacks'[t]) <= MaxDepth
  BY DEF Bounded
<1>1. IsSeq(stacks[t])
  BY DEF EbpfInv, Shape, IsStacks, IsFrames
<1>2. PICK x, n : x = stacks'[t] /\ n = Len(stacks[t])
  OBVIOUS
<1>3. x = [i \in 1..n |-> [stacks[t][i] EXCEPT !.hooked = FALSE]] /\ n \in Nat
  BY <1>1, <1>2, SeqLen DEF release
<1>4. DOMAIN x = 1..n /\ x = [i \in 1..n |-> x[i]]
  BY <1>3
<1>5. Len(x) = n
  BY <1>3, <1>4, SeqIs
<1> QED BY <1>2, <1>5 DEF Bounded

LEMMA Control ==
  ASSUME Bounds, EbpfNext
  PROVE  /\ requests' \in 0..MaxRequests
         /\ pc' \in {"idle", "attach", "head", "loop", "blind", "stopped"}
         /\ due' \in BOOLEAN /\ client' \in {"none", "here", "gone"}
<1>0. MaxRequests \in Nat
  BY EbpfAssumption
<1>1. CASE Program
  BY <1>1 DEF Bounds, Program, Call, Return, Panic, command
<1>2. CASE EndSession \/ AttachNext \/ AttachFails \/ AttachDone \/ WriteHead
  BY <1>2 DEF Bounds, EndSession, AttachNext, AttachFails, AttachDone, WriteHead, command, Reply
<1>3. CASE StreamStep \/ CollectStep \/ DashboardFrame
  <2>1. UNCHANGED <<due, requests>> /\ (Finish \/ Again)
    BY <1>3 DEF StreamStep, CollectStep, DashboardFrame, EndIteration, Common
  <2> QED BY <2>1 DEF Bounds, Finish, Again, Reply
<1>4. CASE MonitorIngest \/ MonitorFrame \/ BlindFrame
  BY <1>4 DEF Bounds, MonitorIngest, MonitorFrame, BlindFrame, Common, Finish, Reply
<1>5. CASE Connect \/ Leave
  BY <1>5 DEF Bounds, Connect, Leave, command
<1>6. CASE \E r \in Requests : Mark(r) \/ Stop(r) \/ Begin(r)
  <2>1. PICK r \in Requests : Mark(r) \/ Stop(r) \/ Begin(r)
    BY <1>6
  <2>2. requests < MaxRequests /\ requests' = requests + 1 /\ client' = client
    BY <2>1 DEF Mark, Stop, Begin, Ask
  <2>3. due' = due \/ due' = FALSE
    BY <2>1 DEF Mark, Stop, Begin, Fresh
  <2>4. pc' = pc \/ pc' \in {"idle", "blind", "attach", "stopped"}
    BY <2>1 DEF Mark, Stop, Begin
  <2>5. /\ requests \in 0..MaxRequests /\ due \in BOOLEAN /\ client \in {"none", "here", "gone"}
        /\ pc \in {"idle", "attach", "head", "loop", "blind", "stopped"}
    BY DEF Bounds
  <2>6. requests' \in 0..MaxRequests
    BY <1>0, <2>2, <2>5
  <2>7. due' \in BOOLEAN
    BY <2>3, <2>5
  <2> QED BY <2>2, <2>4, <2>5, <2>6, <2>7
<1>7. CASE Expire \/ Stopped
  BY <1>7 DEF Bounds, Expire, Stopped, vars, command
<1> QED BY <1>1, <1>2, <1>3, <1>4, <1>5, <1>6, <1>7 DEF EbpfNext, Server, LoopStep, Client

LEMMA BoundsKept ==
  ASSUME EbpfInv, Bounds, [EbpfNext]_vars
  PROVE  Bounds'
<1>1. Bounded(stacks)
  BY DEF Bounds, Bounded
<1>2. Bounded(stacks') /\ calls' \in 0..MaxCalls /\ Len(ring') <= RingSize
  <2>1. CASE Program
    BY <1>1, <2>1, ProgramBounds DEF Bounds
  <2>2. CASE ~Program
    <3>1. /\ calls' = calls /\ (stacks' = stacks \/ \E ids : release(ids))
          /\ ring' = ring \/ ring' = <<>>
      BY <2>2, HelperSteps DEF EbpfNext
    <3>2. RingSize \in Nat
      BY EbpfAssumption
    <3> QED BY <1>1, <3>1, <3>2, ReleaseBounds DEF Bounds
  <2> QED BY <2>1, <2>2
<1>3. CASE EbpfNext
  BY <1>2, <1>3, Control DEF Bounds, Bounded
<1>4. CASE UNCHANGED vars
  BY <1>2, <1>4 DEF Bounds, Bounded, vars, command
<1> QED BY <1>3, <1>4

LEMMA AskedFor ==
  ASSUME NEW r \in Requests
  PROVE  collect_limit(r).count = r.count /\ collect_limit(r).verb = r.verb /\ r.count \in Nat
<1>1. /\ r = [verb |-> r.verb, pattern |-> r.pattern, count |-> r.count, timed |-> r.timed]
      /\ r.count \in Nat
  BY EbpfAssumption
<1>2. PICK u : u = [r EXCEPT !.timed = TRUE]
  OBVIOUS
<1>3. u = [verb |-> r.verb, pattern |-> r.pattern, count |-> r.count, timed |-> TRUE]
  BY <1>1, <1>2
<1>4. u.count = r.count /\ u.verb = r.verb
  BY <1>3
<1> QED BY <1>1, <1>2, <1>4 DEF collect_limit

LEMMA RoomKept ==
  ASSUME EbpfInv, Room, Covering, [EbpfNext]_vars
  PROVE  Room'
<1>1. CASE UNCHANGED <<printed, req, pc>>
  BY <1>1 DEF Room, Over
<1>2. CASE AttachFails \/ AttachDone \/ WriteHead
  BY <1>2 DEF AttachFails, AttachDone, WriteHead, report, Room, Over
<1>3. CASE StreamStep
  <2>1. PICK d, shown : /\ d = Read.done
           /\ shown = IF req.verb = "trace" THEN Cardinality({i \in 1..Len(d) : d[i].root}) ELSE Len(d)
    OBVIOUS
  <2>2. Len(d) \in Nat
    BY <2>1, SeqLen DEF EbpfInv, Shape, IsAcc
  <2>3. shown \in Nat
    <3>1. PICK roots : roots = {i \in 1..Len(d) : d[i].root}
      OBVIOUS
    <3>2. IsFiniteSet(1..Len(d)) /\ roots \in SUBSET (1..Len(d))
      BY <2>2, <3>1, FS_Interval
    <3>3. Cardinality(roots) \in Nat
      BY <3>2, FS_Subset, FS_CardinalityType
    <3> QED BY <2>1, <2>2, <3>1, <3>3
  <2>4. PICK room, n : /\ room = IF req.count = 0 THEN shown ELSE req.count - printed
                       /\ n = IF shown < room THEN shown ELSE room
    OBVIOUS
  <2>5. /\ printed' = printed + n /\ req' = req /\ pc = "loop"
        /\ EndIteration((req.count > 0 /\ printed + n >= req.count) \/ due \/ (client = "gone" /\ n > 0))
    BY <1>3, <2>1, <2>4 DEF StreamStep, Common, Read
  <2>6. n \in Nat /\ printed + n \in Nat
    BY <2>3, <2>4, <2>5 DEF Room, Over
  <2>7. req.count > 0 /\ printed + n >= req.count => pc' = "idle"
    BY <2>5 DEF EndIteration, Finish
  <2> QED BY <2>5, <2>6, <2>7 DEF Room, Over
<1>4. CASE CollectStep
  <2>1. UNCHANGED <<printed, req>> /\ pc = "loop"
    BY <1>4 DEF CollectStep, Common
  <2> QED BY <2>1 DEF Room, Over
<1>5. CASE MonitorIngest
  BY <1>5 DEF MonitorIngest, Common, Room, Over
<1>6. CASE MonitorFrame \/ DashboardFrame \/ BlindFrame
  <2>1. printed' = printed + 1 /\ req' = req /\ (FrameOver => pc' = "idle")
    BY <1>6 DEF MonitorFrame, DashboardFrame, BlindFrame, EndIteration, Common, Finish
  <2>2. pc \in {"loop", "blind"}
    BY <1>6 DEF MonitorFrame, DashboardFrame, BlindFrame
  <2> QED BY <2>1, <2>2 DEF FrameOver, Room, Over
<1>7. ASSUME NEW r \in Requests, Mark(r) \/ Stop(r) PROVE Room'
  <2>1. req' = r /\ printed' = printed /\ pc' \in {"idle", "stopped"}
    BY <1>7 DEF Mark, Stop, Ask, report
  <2>2. r.count \in Nat
    BY EbpfAssumption
  <2> QED BY <2>1, <2>2 DEF Room, Over
<1>8. ASSUME NEW r \in Requests, Begin(r) PROVE Room'
  <2>1. req' = collect_limit(r) /\ printed' = 0
    BY <1>8 DEF Begin, Ask, Fresh
  <2>2. collect_limit(r).count = r.count /\ r.count \in Nat
    BY AskedFor
  <2> QED BY <2>1, <2>2 DEF Room, Over
<1>9. CASE Program \/ EndSession \/ AttachNext \/ Connect \/ Leave \/ Expire \/ Stopped \/ UNCHANGED vars
  <2>1. UNCHANGED <<printed, req, pc>>
    BY <1>9 DEF Program, Call, Return, Panic, EndSession, AttachNext, Connect, Leave, Expire,
                Stopped, vars, command, report
  <2> QED BY <1>1, <2>1
<1> QED BY <1>2, <1>3, <1>4, <1>5, <1>6, <1>7, <1>8, <1>9 DEF EbpfNext, Server, LoopStep, Client

-----------------------------------------------------------------------------
(* Probes to be placed.                                                    *)

LEMMA FewerProbes ==
  ASSUME Placing, probes' \subseteq probes, todo' = todo \/ todo' = <<>>
  PROVE  Placing'
<1>1. PICK S \in SUBSET Ids : /\ Cardinality(S) <= MAX_ATTACH /\ \A p \in probes : p[1] \in S
                              /\ \A i \in 1..Len(todo) : todo[i][1] \in S
  BY DEF Placing
<1>2. CASE todo' = todo
  BY <1>1, <1>2 DEF Placing
<1>3. CASE todo' = <<>>
  <2>1. 1..Len(todo') = {}
    BY <1>3
  <2> QED BY <1>1, <2>1 DEF Placing
<1> QED BY <1>2, <1>3

LEMMA NextProbe ==
  ASSUME EbpfInv, Placing, AttachNext
  PROVE  Placing'
<1>1. /\ todo # <<>> /\ probes' = probes \cup {Head(todo)} /\ todo' = Tail(todo) /\ IsSeq(todo)
  BY DEF AttachNext, EbpfInv, Shape
<1>2. PICK a, b : a = todo /\ b = todo'
  OBVIOUS
<1>3. /\ IsSeq(b) /\ Len(b) = Len(a) - 1 /\ Len(a) \in Nat \ {0}
      /\ \A i \in 1..Len(a) - 1 : b[i] = a[i + 1]
      /\ Head(a) = a[1]
  BY <1>1, <1>2, TailSeq
<1>4. probes' = probes \cup {a[1]}
  BY <1>1, <1>2, <1>3
<1>5. PICK S \in SUBSET Ids : /\ Cardinality(S) <= MAX_ATTACH /\ \A p \in probes : p[1] \in S
                              /\ \A i \in 1..Len(a) : a[i][1] \in S
  BY <1>2 DEF Placing
<1>6. /\ \A i \in 1..Len(a) : a[i] \in Ids \X Kinds /\ a[i] \notin probes
      /\ \A i, j \in 1..Len(a) : a[i] = a[j] => i = j
      /\ probes \subseteq Ids \X Kinds
  BY <1>2 DEF Placing
<1>7. \A i \in 1..Len(b) : i + 1 \in 1..Len(a) /\ i + 1 # 1 /\ b[i] = a[i + 1]
  BY <1>3
<1>8. 1 \in 1..Len(a)
  BY <1>3
<1>9. probes' \subseteq Ids \X Kinds /\ \A p \in probes' : p[1] \in S
  BY <1>4, <1>5, <1>6, <1>8
<1>10. \A i \in 1..Len(b) : b[i] \in Ids \X Kinds /\ b[i] \notin probes' /\ b[i][1] \in S
  BY <1>4, <1>5, <1>6, <1>7, <1>8
<1>11. \A i, j \in 1..Len(b) : b[i] = b[j] => i = j
  <2> SUFFICES ASSUME NEW i \in 1..Len(b), NEW j \in 1..Len(b), b[i] = b[j] PROVE i = j
    OBVIOUS
  <2>1. i + 1 = j + 1
    BY <1>6, <1>7
  <2> QED BY <2>1
<1> QED BY <1>2, <1>5, <1>9, <1>10, <1>11 DEF Placing

LEMMA NewProbes ==
  ASSUME EbpfInv, Placing, NEW r \in Requests, Begin(r)
  PROVE  Placing'
<1>1. PICK g, n, td : g = Targets(r) /\ n = Len(g) /\ td = todo'
  OBVIOUS
<1>2. /\ IsSeq(g) /\ n \in Nat /\ n <= MAX_ATTACH /\ MAX_ATTACH \in Nat
      /\ \A k \in 1..n : g[k] \in Ids
      /\ \A k, l \in 1..n : g[k] = g[l] => k = l
  <2>1. enabled \subseteq Ids
    BY DEF EbpfInv, Shape
  <2> QED BY <1>1, <2>1, TargetsItems, EbpfAssumption
<1>3. /\ td = [k \in 1..2 * n |-> <<g[(k + 1) \div 2], IF k % 2 = 1 THEN "enter" ELSE "exit">>]
      /\ IF g = <<>> THEN probes' = probes ELSE probes' = {}
  BY <1>1 DEF Begin, kernel, release
<1>4. CASE g = <<>>
  <2>1. n = 0 /\ 2 * n = 0
    BY <1>1, <1>4
  <2>2. 1..Len(td) = {}
    <3>1. td = [k \in 1..0 |-> td[k]] /\ DOMAIN td = 1..0
      BY <1>3, <2>1
    <3>2. Len(td) = 0
      BY <3>1, SeqIs
    <3> QED BY <3>2
  <2> QED BY <1>1, <1>3, <1>4, <2>2 DEF Placing
<1>5. CASE g # <<>>
  <2>1. probes' = {}
    BY <1>3, <1>5
  <2>2. 2 * n \in Nat /\ DOMAIN td = 1..2 * n /\ td = [k \in 1..2 * n |-> td[k]]
    BY <1>2, <1>3
  <2>3. Len(td) = 2 * n
    BY <2>2, SeqIs
  <2>4. ASSUME NEW i \in 1..Len(td)
        PROVE  /\ (i + 1) \div 2 \in 1..n /\ i % 2 \in 0..1 /\ i = 2 * ((i + 1) \div 2) - (i % 2)
               /\ td[i] = <<g[(i + 1) \div 2], IF i % 2 = 1 THEN "enter" ELSE "exit">>
    <3>1. i \in 1..2 * n /\ i \in Nat
      BY <2>2, <2>3
    <3>2. td[i] = <<g[(i + 1) \div 2], IF i % 2 = 1 THEN "enter" ELSE "exit">>
      BY <1>3, <3>1
    <3>3. (i + 1) \div 2 \in 1..n /\ i % 2 \in 0..1 /\ i = 2 * ((i + 1) \div 2) - (i % 2)
      BY <1>2, <3>1
    <3> QED BY <3>2, <3>3
  <2>5. \A i \in 1..Len(td) : td[i] \in Ids \X Kinds
    <3> SUFFICES ASSUME NEW i \in 1..Len(td) PROVE td[i] \in Ids \X Kinds
      OBVIOUS
    <3>1. g[(i + 1) \div 2] \in Ids
      BY <1>2, <2>4
    <3>2. PICK id, kind : id = g[(i + 1) \div 2] /\ kind = IF i % 2 = 1 THEN "enter" ELSE "exit"
      OBVIOUS
    <3>3. td[i] = <<id, kind>>
      BY <2>4, <3>2
    <3>4. id \in Ids /\ kind \in Kinds
      BY <3>1, <3>2 DEF Kinds
    <3> QED BY <3>3, <3>4
  <2>6. ASSUME NEW i \in 1..Len(td), NEW j \in 1..Len(td), td[i] = td[j] PROVE i = j
    <3>1. g[(i + 1) \div 2] = g[(j + 1) \div 2] /\ (i % 2 = 1 <=> j % 2 = 1)
      BY <2>4, <2>6
    <3>2. (i + 1) \div 2 = (j + 1) \div 2
      BY <1>2, <2>4, <3>1
    <3>3. i % 2 = j % 2
      BY <2>4, <3>1
    <3> QED BY <2>4, <3>2, <3>3
  <2> DEFINE S == {g[k] : k \in 1..n}
  <2>7. S \in SUBSET Ids
    BY <1>2
  <2>8. Cardinality(S) <= n
    <3>1. DOMAIN g = 1..n /\ g = [k \in 1..n |-> g[k]]
      BY <1>1, <1>2, SeqLen
    <3>2. g \in Surjection(1..n, S)
      <4>1. g \in [1..n -> S] /\ \A x \in S : \E k \in 1..n : g[k] = x
        BY <3>1
      <4> HIDE DEF S
      <4> QED BY <4>1 DEF Surjection
    <3>3. IsFiniteSet(1..n) /\ Cardinality(1..n) = n
      BY <1>2, FS_Interval
    <3> HIDE DEF S
    <3> QED BY <3>2, <3>3, FS_Surjection
  <2>9. \A i \in 1..Len(td) : td[i][1] \in S
    <3> SUFFICES ASSUME NEW i \in 1..Len(td) PROVE td[i][1] \in S
      OBVIOUS
    <3>1. td[i][1] = g[(i + 1) \div 2] /\ (i + 1) \div 2 \in 1..n
      BY <2>4
    <3> QED BY <3>1
  <2>10. Cardinality(S) <= MAX_ATTACH
    <3>1. Cardinality(S) \in Nat
      <4>1. IsFiniteSet(Ids)
        <5>1. Len(SymbolTable) \in Nat
          BY EbpfAssumption
        <5> QED BY <5>1, FS_Interval DEF Ids
      <4> HIDE DEF S
      <4> QED BY <2>7, <4>1, FS_Subset, FS_CardinalityType
    <3> HIDE DEF S
    <3> QED BY <1>2, <2>8, <3>1
  <2> HIDE DEF S
  <2> QED BY <1>1, <2>1, <2>5, <2>6, <2>7, <2>9, <2>10 DEF Placing
<1> QED BY <1>4, <1>5

LEMMA PlacingKept ==
  ASSUME EbpfInv, Placing, [EbpfNext]_vars
  PROVE  Placing'
<1>1. CASE AttachNext
  BY <1>1, NextProbe
<1>2. CASE \E r \in Requests : Begin(r)
  BY <1>2, NewProbes
<1>3. CASE AttachFails
  BY <1>3, FewerProbes DEF AttachFails, detach, release
<1>4. CASE \E r \in Requests : Stop(r)
  BY <1>4, FewerProbes DEF Stop, detach, release
<1>5. CASE StreamStep \/ CollectStep \/ DashboardFrame \/ MonitorFrame
  <2>1. todo' = todo /\ (probes' = probes \/ Finish)
    BY <1>5 DEF StreamStep, CollectStep, DashboardFrame, MonitorFrame, EndIteration, Again, Common, kernel
  <2>2. probes' \subseteq probes
    BY <2>1 DEF Finish, detach, release
  <2> QED BY <2>1, <2>2, FewerProbes
<1>6. CASE \/ Program \/ EndSession \/ AttachDone \/ WriteHead \/ MonitorIngest \/ BlindFrame \/ Connect
           \/ Leave \/ (\E r \in Requests : Mark(r)) \/ Expire \/ Stopped \/ UNCHANGED vars
  <2>1. todo' = todo /\ probes' = probes
    BY <1>6 DEF Program, Call, Return, Panic, EndSession, AttachDone, WriteHead, MonitorIngest,
                BlindFrame, Connect, Leave, Mark, Expire, Stopped, vars, command, kernel, Common
  <2> QED BY <2>1, FewerProbes
<1> QED BY <1>1, <1>2, <1>3, <1>4, <1>5, <1>6 DEF EbpfNext, Server, LoopStep, Client

-----------------------------------------------------------------------------
(* Buffers and frames.                                                     *)

LEMMA CoveringStill ==
  ASSUME Covering, UNCHANGED <<buf, frames, req, seen>>, pc' = "blind" => req.verb = "dashboard"
  PROVE  Covering'
BY DEF Covering, ReportsCoverSeen, Newest

\* A frame more.
LEMMA CoveringFrame ==
  ASSUME Covering, NEW x, IsSeq(x), frames' = Append(frames, x)
  PROVE  /\ IsSeq(frames') /\ \A i \in 1..Len(frames') : IsSeq(frames'[i])
         /\ FlattenSeq(frames') = FlattenSeq(frames) \o x /\ IsSeq(FlattenSeq(frames))
<1>1. IsSeq(frames) /\ \A i \in 1..Len(frames) : IsSeq(frames[i])
  BY DEF Covering
<1>2. PICK a, b : a = frames /\ b = frames'
  OBVIOUS
<1>3. /\ IsSeq(b) /\ Len(b) = Len(a) + 1 /\ Len(a) \in Nat
      /\ \A i \in 1..Len(a) : b[i] = a[i]
      /\ b[Len(a) + 1] = x
  BY <1>1, <1>2, AppendSeq
<1>4. \A i \in 1..Len(b) : IsSeq(b[i])
  <2>1. \A i \in 1..Len(b) : i = Len(a) + 1 \/ i \in 1..Len(a)
    BY <1>3
  <2> QED BY <1>1, <1>2, <1>3, <2>1
<1>5. FlattenSeq(frames') = FlattenSeq(frames) \o x
  BY <1>1, FlattenMore
<1>6. IsSeq(FlattenSeq(frames))
  BY <1>1, FlattenIsSeq
<1> QED BY <1>2, <1>3, <1>4, <1>5, <1>6

LEMMA CoveringNew ==
  ASSUME NEW r \in Requests, Begin(r)
  PROVE  Covering'
<1>1. buf' = <<>> /\ frames' = <<>> /\ seen' = <<>> /\ req' = collect_limit(r)
  BY DEF Begin, Fresh, Ask
<1>2. pc' = "blind" => r.verb = "dashboard"
  BY DEF Begin
<1>3. IsSeq(<<>>) /\ 1..Len(<<>>) = {} /\ Len(<<>>) = 0
  BY NothingIsSeq
<1>4. Newest(<<>>) = <<>>
  <2>1. IsSeq(Newest(<<>>)) /\ Len(Newest(<<>>)) = 0
    BY <1>3, NewestItems
  <2> QED BY <2>1 DEF IsSeq
<1>5. FlattenSeq(<<>>) \o <<>> = <<>>
  BY FlattenNone
<1>6. collect_limit(r).verb = r.verb
  BY AskedFor
<1>7. ReportsCoverSeen'
  <2>1. req'.verb \in {"stats", "top"} => buf' = Newest(seen')
    BY <1>1, <1>4
  <2>2. req'.verb \in {"monitor", "dashboard"} => FlattenSeq(frames') \o buf' = seen'
    BY <1>1, <1>5
  <2> QED BY <2>1, <2>2 DEF ReportsCoverSeen, Newest
<1> QED BY <1>1, <1>2, <1>3, <1>6, <1>7 DEF Covering

LEMMA CoveringKept ==
  ASSUME EbpfInv, Covering, [EbpfNext]_vars
  PROVE  Covering'
<1>0. PICK d : d = Read.done
  OBVIOUS
<1>1. /\ IsSeq(d) /\ IsSeq(seen) /\ IsSeq(buf) /\ IsSeq(frames) /\ IsSeq(seen \o d) /\ IsSeq(buf \o d)
      /\ IsSeq(<<>>)
  BY <1>0, ConcatSeq, NothingIsSeq DEF EbpfInv, Shape, IsAcc, Covering
<1>2. /\ req.verb \in {"stats", "top"} => buf = Newest(seen)
      /\ req.verb \in {"monitor", "dashboard"} => FlattenSeq(frames) \o buf = seen
      /\ req.verb = "dashboard" => buf = <<>>
      /\ \A i \in 1..Len(frames) : IsSeq(frames[i])
  BY DEF Covering, ReportsCoverSeen
<1>3. CASE StreamStep
  <2>1. req.verb \in {"trace", "watch"} /\ UNCHANGED <<buf, frames, req>> /\ pc = "loop"
        /\ pc' \in {"loop", "idle"}
    BY <1>3 DEF StreamStep, Common, EndIteration, Finish, Again
  <2> QED BY <1>1, <1>2, <2>1 DEF Covering, ReportsCoverSeen
<1>4. CASE CollectStep
  <2>1. /\ req.verb \in {"stats", "top"} /\ UNCHANGED <<frames, req>> /\ pc' \in {"loop", "idle"}
        /\ buf' = Newest(buf \o d) /\ seen' = seen \o d
    BY <1>0, <1>4 DEF CollectStep, Common, EndIteration, Finish, Again, Capped, Read
  <2>2. buf' = Newest(seen \o d)
    BY <1>1, <1>2, <2>1, NewestOfNewest
  <2>3. IsSeq(buf')
    BY <1>1, <2>2, NewestItems
  <2>4. ReportsCoverSeen'
    <3>1. req'.verb \in {"stats", "top"} /\ buf' = Newest(seen')
      BY <2>1, <2>2
    <3> QED BY <3>1 DEF ReportsCoverSeen, Newest
  <2> QED BY <1>1, <1>2, <2>1, <2>3, <2>4 DEF Covering
<1>5. CASE MonitorIngest
  <2>1. /\ req.verb = "monitor" /\ UNCHANGED <<frames, req>> /\ pc' = "loop"
        /\ buf' = buf \o d /\ seen' = seen \o d
    BY <1>0, <1>5 DEF MonitorIngest, Common, Read
  <2>2. IsSeq(FlattenSeq(frames))
    BY <1>1, <1>2, FlattenIsSeq
  <2>3. FlattenSeq(frames) \o (buf \o d) = seen \o d
    <3>1. PICK whole : whole = FlattenSeq(frames)
      OBVIOUS
    <3>a. IsSeq(whole) /\ IsSeq(buf) /\ IsSeq(d)
      BY <1>1, <2>2, <3>1
    <3>2. (whole \o buf) \o d = whole \o (buf \o d)
      BY <3>a, ConcatAgain
    <3>3. whole \o buf = seen
      BY <1>2, <2>1, <3>1
    <3> QED BY <3>1, <3>2, <3>3
  <2>4. ReportsCoverSeen'
    BY <2>1, <2>3 DEF ReportsCoverSeen
  <2> QED BY <1>1, <1>2, <2>1, <2>4 DEF Covering
<1>6. CASE MonitorFrame
  <2>1. /\ req.verb = "monitor" /\ UNCHANGED <<req, seen>> /\ pc' \in {"loop", "idle"}
        /\ frames' = Append(frames, buf) /\ buf' = <<>>
    BY <1>6 DEF MonitorFrame, Common, Finish
  <2>2. /\ IsSeq(frames') /\ \A i \in 1..Len(frames') : IsSeq(frames'[i])
        /\ FlattenSeq(frames') = FlattenSeq(frames) \o buf
    BY <1>1, <2>1, CoveringFrame
  <2>3. FlattenSeq(frames') = seen
    BY <1>2, <2>1, <2>2
  <2>4. FlattenSeq(frames') \o <<>> = seen
    BY <1>1, <2>3, ConcatSeq
  <2>5. ReportsCoverSeen'
    BY <2>1, <2>4 DEF ReportsCoverSeen
  <2> QED BY <1>1, <2>1, <2>2, <2>5 DEF Covering
<1>7. CASE DashboardFrame \/ BlindFrame
  <2>1. PICK x : /\ req.verb = "dashboard" /\ UNCHANGED <<req, buf>> /\ pc' \in {"loop", "idle", "blind"}
                 /\ frames' = Append(frames, x) /\ IsSeq(x)
                 /\ \/ x = d /\ seen' = seen \o d
                    \/ x = <<>> /\ seen' = seen
    <3>1. CASE DashboardFrame
      <4>1. /\ req.verb = "dashboard" /\ UNCHANGED <<req, buf>> /\ pc' \in {"loop", "idle"}
            /\ frames' = Append(frames, d) /\ seen' = seen \o d
        BY <1>0, <3>1 DEF DashboardFrame, Common, EndIteration, Finish, Again, Read
      <4> QED BY <1>1, <4>1
    <3>2. CASE BlindFrame
      <4>1. /\ pc = "blind" /\ UNCHANGED <<req, buf>> /\ pc' \in {"blind", "idle"}
            /\ frames' = Append(frames, <<>>) /\ seen' = seen
        BY <3>2 DEF BlindFrame, Common
      <4>2. req.verb = "dashboard"
        BY <4>1 DEF Covering
      <4> QED BY <1>1, <4>1, <4>2
    <3> QED BY <1>7, <3>1, <3>2
  <2>2. buf = <<>> /\ FlattenSeq(frames) = seen
    <3>1. IsSeq(FlattenSeq(frames))
      BY <1>1, <1>2, FlattenIsSeq
    <3>2. FlattenSeq(frames) \o <<>> = FlattenSeq(frames)
      BY <1>1, <3>1, ConcatSeq
    <3> QED BY <1>2, <2>1, <3>2
  <2>3. /\ IsSeq(frames') /\ \A i \in 1..Len(frames') : IsSeq(frames'[i])
        /\ FlattenSeq(frames') = FlattenSeq(frames) \o x
    BY <2>1, CoveringFrame
  <2>4. FlattenSeq(frames') = seen' /\ IsSeq(seen')
    <3>1. seen \o <<>> = seen
      BY <1>1, ConcatSeq
    <3> QED BY <1>1, <2>1, <2>2, <2>3, <3>1
  <2>5. FlattenSeq(frames') \o buf' = seen'
    BY <1>1, <2>1, <2>2, <2>4, ConcatSeq
  <2>6. ReportsCoverSeen'
    BY <2>1, <2>5 DEF ReportsCoverSeen
  <2> QED BY <1>1, <2>1, <2>2, <2>3, <2>6 DEF Covering
<1>8. ASSUME NEW r \in Requests, Mark(r) \/ Stop(r) PROVE Covering'
  <2>1. req' = r /\ UNCHANGED <<buf, frames, seen>> /\ r.verb \in {"on", "off", "stop"}
        /\ pc' \in {"idle", "stopped"}
    BY <1>8 DEF Mark, Stop, Ask, report, history
  <2> QED BY <1>1, <1>2, <2>1 DEF Covering, ReportsCoverSeen
<1>9. ASSUME NEW r \in Requests, Begin(r) PROVE Covering'
  BY <1>9, CoveringNew
<1>10. CASE AttachFails \/ AttachDone \/ WriteHead
  <2>1. UNCHANGED <<buf, frames, req, seen>> /\ (pc' = "blind" => req.verb = "dashboard")
    BY <1>10 DEF AttachFails, AttachDone, WriteHead, report, history
  <2> QED BY <2>1, CoveringStill
<1>11. CASE Program \/ EndSession \/ AttachNext \/ Connect \/ Leave \/ Expire \/ Stopped \/ UNCHANGED vars
  <2>1. UNCHANGED <<buf, frames, req, seen, pc>>
    BY <1>11 DEF Program, Call, Return, Panic, EndSession, AttachNext, Connect, Leave, Expire,
                Stopped, vars, command, report, history
  <2>2. pc' = "blind" => req.verb = "dashboard"
    BY <2>1 DEF Covering
  <2> QED BY <2>1, <2>2, CoveringStill
<1> QED BY <1>3, <1>4, <1>5, <1>6, <1>7, <1>8, <1>9, <1>10, <1>11
   DEF EbpfNext, Server, LoopStep, Client

LEMMA ReportsInit ==
  ASSUME EbpfInit
  PROVE  ReportInv
<1>0. /\ MaxDepth \in Nat /\ MaxCalls \in Nat /\ RingSize \in Nat /\ MaxRequests \in Nat
      /\ MAX_ATTACH \in Nat
  BY EbpfAssumption
<1>1. IsSeq(<<>>) /\ 1..Len(<<>>) = {} /\ Len(<<>>) = 0
  BY NothingIsSeq
<1>2. Bounds
  <2>1. \A t \in Threads : stacks[t] = <<>>
    BY DEF EbpfInit
  <2>a. Len(<<>>) <= MaxDepth
    BY <1>0, <1>1
  <2>2. \A t \in Threads : Len(stacks[t]) <= MaxDepth
    BY <2>1, <2>a, Zenon
  <2>3. /\ calls \in 0..MaxCalls /\ Len(ring) <= RingSize /\ requests \in 0..MaxRequests
        /\ pc = "idle" /\ due = FALSE /\ client = "none"
    <3>1. calls = 0 /\ ring = <<>> /\ requests = 0 /\ pc = "idle" /\ due = FALSE /\ client = "none"
      BY DEF EbpfInit
    <3>2. 0 \in 0..MaxCalls /\ 0 \in 0..MaxRequests /\ Len(<<>>) <= RingSize
      BY <1>0, <1>1
    <3> QED BY <3>1, <3>2, Zenon
  <2> QED BY <2>2, <2>3 DEF Bounds
<1>3. Room
  BY DEF EbpfInit, Room, Over, NoRequest
<1>4. Placing
  <2>1. Cardinality({}) = 0
    BY FS_EmptySet
  <2>2. {} \in SUBSET Ids /\ Cardinality({}) <= MAX_ATTACH
    BY <1>0, <2>1
  <2> QED BY <1>1, <2>2 DEF EbpfInit, Placing
<1>5. Covering
  BY <1>1 DEF EbpfInit, NoRequest, Covering, ReportsCoverSeen
<1> QED BY <1>2, <1>3, <1>4, <1>5 DEF ReportInv

LEMMA ReportsFollow ==
  ASSUME EbpfInv, ReportInv
  PROVE  ReportsHold
<1>1. PICK S \in SUBSET Ids : Cardinality(S) <= MAX_ATTACH /\ \A p \in probes : p[1] \in S
  BY DEF ReportInv, Placing
<1>2. Cardinality({p[1] : p \in probes}) <= MAX_ATTACH
  <2>1. IsFiniteSet(S)
    <3>1. Len(SymbolTable) \in Nat
      BY EbpfAssumption
    <3>2. IsFiniteSet(Ids)
      BY <3>1, FS_Interval DEF Ids
    <3> QED BY <3>2, FS_Subset
  <2>2. {p[1] : p \in probes} \in SUBSET S
    BY <1>1
  <2>3. PICK F : F = {p[1] : p \in probes}
    OBVIOUS
  <2>4. /\ Cardinality(F) <= Cardinality(S)
        /\ Cardinality(F) \in Nat /\ Cardinality(S) \in Nat /\ MAX_ATTACH \in Nat
    BY <2>1, <2>2, <2>3, FS_Subset, FS_CardinalityType, EbpfAssumption
  <2> QED BY <1>1, <2>3, <2>4
<1>3. TypeOK
  BY <1>2 DEF EbpfInv, Shape, ReportInv, Bounds, Room, Placing, Kinds, TypeOK
<1>4. ReportsCoverSeen
  BY DEF ReportInv, Covering
<1> QED BY <1>3, <1>4 DEF ReportsHold

\* A report covers what was seen and nothing twice: `stats` and `top` keep the
\* newest calls up to their cap, batch by batch, the frames of a `monitor` or a
\* dashboard and the interval still open divide the calls among them, and no
\* more symbols are probed at once than MAX_ATTACH, each once (collect_samples,
\* cmd_monitor, cmd_dashboard and prepare_attach in server.rs).
THEOREM ReportsAreWhole == EbpfSpec => []ReportsHold
<1>1. EbpfInit => EbpfInv /\ ReportInv
  BY InitHolds, ReportsInit
<1>2. EbpfInv /\ ReportInv /\ [EbpfNext]_vars => (EbpfInv /\ ReportInv)'
  BY StepKeeps, BoundsKept, RoomKept, PlacingKept, CoveringKept DEF ReportInv
<1>3. EbpfInv /\ ReportInv => ReportsHold
  BY ReportsFollow
<1> QED BY <1>1, <1>2, <1>3, PTL DEF EbpfSpec
=============================================================================
