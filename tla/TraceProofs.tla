----------------------------- MODULE TraceProofs ----------------------------
(***************************************************************************)
(* Proofs about what a streaming command stands on: Forest and Trace, and  *)
(* the Recorder they read.  For any number of spans, whatever their events *)
(* say of their parents and in whatever order they arrive, no span is lost *)
(* or shown twice and no span is parked while its parent is there.         *)
(***************************************************************************)
EXTENDS Recorder, Trace, WellFoundedInduction, TLAPS

\* A tree that was handed out holds its own root, so no root is taken twice.
RootInTree == \A r \in Spans : trees[r] # {} => r \in trees[r]

ForestInv ==
  /\ ForestTypeOK
  /\ Conservation
  /\ ParentsInPlace
  /\ RootInTree

-----------------------------------------------------------------------------
\* What `take(r)` removes: r, nothing else that is parked or released, and
\* every child of what it removes.

LEMMA SubtreeBasics ==
  ASSUME ForestInv, NEW r \in ready \union waiting
  PROVE  /\ r \in Subtree(r)
         /\ Subtree(r) \subseteq nodes
         /\ Subtree(r) \subseteq {r} \union adopted
         /\ \A c \in adopted : parent[c] \in Subtree(r) => c \in Subtree(r)
<1>1. r \in nodes /\ adopted \subseteq nodes
  BY DEF ForestInv, Conservation
<1>2. r \in Subtree(r) /\ Subtree(r) \subseteq nodes
  BY <1>1 DEF Subtree
<1>3. Subtree(r) \subseteq {r} \union adopted
  <2> DEFINE S == {r} \union adopted
  <2>1. S \in SUBSET (nodes \union {r}) /\ r \in S
    BY <1>1
  <2>2. IsClosed(S)
    BY DEF IsClosed
  <2> QED
    BY <2>1, <2>2 DEF Subtree
<1>4. ASSUME NEW c \in adopted, parent[c] \in Subtree(r)
      PROVE  c \in Subtree(r)
  <2>1. ASSUME NEW S \in SUBSET (nodes \union {r}), r \in S, IsClosed(S)
        PROVE  c \in S
    <3>1. parent[c] \in S
      BY <1>4, <2>1 DEF Subtree
    <3> QED
      BY <2>1, <3>1 DEF IsClosed
  <2> QED
    BY <1>1, <2>1 DEF Subtree
<1> QED
  BY <1>2, <1>3, <1>4

\* Every other member of the tree has its parent in the tree.
LEMMA SubtreeParents ==
  ASSUME ForestInv, NEW r \in ready \union waiting,
         NEW c \in Subtree(r), c # r
  PROVE  parent[c] \in Subtree(r)
<1> SUFFICES ASSUME parent[c] \notin Subtree(r)
             PROVE  FALSE
  OBVIOUS
<1> DEFINE S == Subtree(r) \ {c}
<1>1. S \in SUBSET (nodes \union {r}) /\ r \in S
  BY SubtreeBasics
<1>2. IsClosed(S)
  BY SubtreeBasics DEF IsClosed
<1>3. c \in S
  BY <1>1, <1>2 DEF Subtree
<1> QED
  BY <1>3

\* The trees of two released spans have nothing in common.
LEMMA SubtreesApart ==
  ASSUME ForestInv, NEW r \in ready \union waiting, NEW q \in ready \union waiting,
         r # q
  PROVE  Subtree(r) \intersect Subtree(q) = {}
<1>0. r \notin adopted /\ q \notin adopted
  BY DEF ForestInv, Conservation
<1> DEFINE S == Subtree(r) \ Subtree(q)
<1>1. r \in S
  BY <1>0, SubtreeBasics
<1>2. S \in SUBSET (nodes \union {r})
  BY SubtreeBasics
<1>3. IsClosed(S)
  <2> SUFFICES ASSUME NEW c \in adopted, parent[c] \in S
               PROVE  c \in S
    BY DEF IsClosed
  <2>1. c \in Subtree(r)
    BY SubtreeBasics
  <2>2. c \notin Subtree(q)
    BY <1>0, SubtreeParents
  <2> QED
    BY <2>1, <2>2
<1>4. Subtree(r) \subseteq S
  BY <1>1, <1>2, <1>3 DEF Subtree
<1> QED
  BY <1>4

-----------------------------------------------------------------------------

LEMMA ForestStarts == ForestInit => ForestInv
<1> SUFFICES ASSUME ForestInit
             PROVE  ForestInv
  OBVIOUS
<1> USE DEF ForestInit
<1>1. ForestTypeOK
  BY DEF ForestTypeOK
<1>2. Taken = {}
  BY DEF Taken
<1>3. Conservation
  BY <1>2 DEF Conservation
<1> QED
  BY <1>1, <1>3 DEF ForestInv, ParentsInPlace, RootInTree

LEMMA AddKeeps ==
  ASSUME ForestInv, NEW s \in Spans \ added, Add(s)
  PROVE  ForestInv'
<1> USE DEF ForestInv, Add
<1>1. ForestTypeOK'
  BY DEF ForestTypeOK, ReleasedBy, AdoptedBy, JoinsParent, Parks, StillWaiting, If, IsRoot
<1>2. Taken' = Taken
  BY DEF Taken
<1>3. s \notin nodes /\ s \notin adopted /\ s \notin waiting /\ s \notin ready /\ s \notin Taken
  BY DEF Conservation
<1>4. aged \subseteq waiting /\ aged \subseteq nodes
  BY DEF ForestTypeOK, Conservation
<1>5. Conservation'
  <2>1. added' = nodes' \union Taken' /\ nodes' \intersect Taken' = {}
    BY <1>2, <1>3 DEF Conservation
  <2>2. \A r, q \in Spans : r # q => trees'[r] \intersect trees'[q] = {}
    BY DEF Conservation
  <2>3. nodes' = adopted' \union waiting' \union ready'
    BY <1>4 DEF Conservation, ReleasedBy, AdoptedBy, JoinsParent, Parks, StillWaiting, If
  <2>4. adopted' \intersect (waiting' \union ready') = {} /\ waiting' \intersect ready' = {}
    BY <1>3, <1>4 DEF Conservation, ReleasedBy, AdoptedBy, JoinsParent, Parks, StillWaiting, If
  <2> QED
    BY <2>1, <2>2, <2>3, <2>4 DEF Conservation
<1>6. ParentsInPlace'
  <2>1. ASSUME NEW w \in waiting'
        PROVE  parent'[w] \notin nodes' /\ ~IsRoot(w)'
    <3>1. CASE w = s
      <4>1. Parks(s)
        BY <1>3, <3>1 DEF If, StillWaiting
      <4> QED
        BY <3>1, <4>1, SpansAssumption DEF Parks, IsRoot, ForestTypeOK
    <3>2. CASE w # s
      BY <3>2, <2>1 DEF If, StillWaiting, AdoptedBy, ParentsInPlace, IsRoot
    <3> QED
      BY <3>1, <3>2
  <2>2. ASSUME NEW c \in adopted'
        PROVE  parent'[c] \in nodes' /\ ~IsRoot(c)'
    BY <2>2 DEF If, StillWaiting, AdoptedBy, JoinsParent, ParentsInPlace, IsRoot
  <2> QED
    BY <2>1, <2>2 DEF ParentsInPlace
<1>7. RootInTree'
  BY DEF RootInTree
<1> QED
  BY <1>1, <1>5, <1>6, <1>7

LEMMA AgeKeeps ==
  ASSUME ForestInv, NEW s \in Spans, Age(s)
  PROVE  ForestInv'
<1>1. Taken' = Taken
  BY DEF Age, Taken
<1> QED
  BY <1>1 DEF ForestInv, Age, ForestTypeOK, Conservation, ParentsInPlace, IsRoot, RootInTree

LEMMA TakeKeeps ==
  ASSUME ForestInv, NEW r \in Spans, Take(r)
  PROVE  ForestInv'
<1> DEFINE T == Subtree(r)
<1>1. r \in T /\ T \subseteq nodes /\ T \subseteq {r} \union adopted
  BY SubtreeBasics DEF Take
<1>2. \A c \in adopted : parent[c] \in T => c \in T
  BY SubtreeBasics DEF Take
<1>3. /\ nodes' = nodes \ T
      /\ adopted' = adopted \ T
      /\ ready' = ready \ T
      /\ trees' = [trees EXCEPT ![r] = T]
      /\ r \in ready
  BY <1>1 DEF Take
<1>4. UNCHANGED <<parent, waiting, aged, added, expired, late>>
  BY DEF Take
<1> HIDE DEF T
<1> USE DEF ForestInv
<1>5. ForestTypeOK'
  BY <1>1, <1>3, <1>4 DEF ForestTypeOK
<1>6. trees[r] = {}
  BY <1>1, <1>3 DEF RootInTree, Conservation, Taken
<1>7. \A q \in Spans : trees'[q] = IF q = r THEN T ELSE trees[q]
  BY <1>3 DEF ForestTypeOK
<1>8. Taken' = Taken \union T
  BY <1>6, <1>7 DEF Taken
<1>9. Conservation'
  <2>1. added' = nodes' \union Taken' /\ nodes' \intersect Taken' = {}
    BY <1>1, <1>3, <1>4, <1>8 DEF Conservation
  <2>2. \A q \in Spans : trees[q] \intersect T = {}
    BY <1>1 DEF Conservation, Taken
  <2>3. \A p, q \in Spans : p # q => trees'[p] \intersect trees'[q] = {}
    BY <1>7, <2>2 DEF Conservation
  <2>4. waiting \intersect T = {}
    BY <1>1, <1>3 DEF Conservation
  <2>5. nodes' = adopted' \union waiting' \union ready'
    BY <1>3, <1>4, <2>4 DEF Conservation
  <2>6. adopted' \intersect (waiting' \union ready') = {} /\ waiting' \intersect ready' = {}
    BY <1>3, <1>4 DEF Conservation
  <2> QED
    BY <2>1, <2>3, <2>5, <2>6 DEF Conservation
<1>10. ParentsInPlace'
  BY <1>2, <1>3, <1>4 DEF ParentsInPlace, IsRoot
<1>11. RootInTree'
  BY <1>1, <1>7 DEF RootInTree
<1> QED
  BY <1>5, <1>9, <1>10, <1>11

LEMMA DrainKeeps ==
  ASSUME ForestInv, Drain
  PROVE  ForestInv'
<1> DEFINE T(r) == Subtree(r)
           leaving == UNION {T(r) : r \in LastRoots}
<1>0. LastRoots = ready \union waiting /\ LastRoots \subseteq nodes /\ LastRoots \subseteq Spans
  BY DEF LastRoots, ForestInv, Conservation, ForestTypeOK
<1>1. \A r \in LastRoots : r \in T(r) /\ T(r) \subseteq nodes
  BY <1>0, SubtreeBasics
<1>2. \A r \in LastRoots : \A c \in adopted : parent[c] \in T(r) => c \in T(r)
  BY <1>0, SubtreeBasics
<1>3. \A r, q \in LastRoots : r # q => T(r) \intersect T(q) = {}
  BY <1>0, SubtreesApart
<1>4. /\ nodes' = nodes \ leaving
      /\ adopted' = adopted \ leaving
      /\ ready' = {} /\ waiting' = {} /\ aged' = {}
      /\ trees' = [r \in Spans |-> IF r \in LastRoots THEN T(r) ELSE trees[r]]
      /\ UNCHANGED <<parent, added, expired, late>>
  BY DEF Drain
<1> HIDE DEF T
<1> USE DEF ForestInv
<1>5. LastRoots \subseteq leaving /\ leaving \subseteq nodes
  BY <1>1
<1>6. \A c \in adopted : parent[c] \in leaving => c \in leaving
  BY <1>2
<1>7. \A r \in Spans : trees'[r] = IF r \in LastRoots THEN T(r) ELSE trees[r]
  BY <1>4
<1>8. \A r \in LastRoots : trees[r] = {}
  <2> SUFFICES ASSUME NEW r \in LastRoots, trees[r] # {}
               PROVE  FALSE
    OBVIOUS
  <2>1. r \in Spans /\ r \in nodes
    BY <1>0
  <2>2. r \in Taken
    BY <2>1 DEF RootInTree, Taken
  <2> QED
    BY <2>1, <2>2 DEF Conservation
<1>9. Taken' = Taken \union leaving
  BY <1>0, <1>7, <1>8 DEF Taken
<1>10. ForestTypeOK'
  <2>1. nodes \subseteq Spans
    BY DEF ForestTypeOK
  <2>2. \A r \in LastRoots : T(r) \in SUBSET Spans
    BY <1>1, <2>1
  <2>3. trees' \in [Spans -> SUBSET Spans]
    BY <1>4, <2>2 DEF ForestTypeOK
  <2> QED
    BY <1>4, <2>3 DEF ForestTypeOK
<1>11. Conservation'
  <2>1. added' = nodes' \union Taken' /\ nodes' \intersect Taken' = {}
    BY <1>4, <1>5, <1>9 DEF Conservation
  <2>2. \A r \in LastRoots, q \in Spans : trees[q] \intersect T(r) = {}
    BY <1>1 DEF Conservation, Taken
  <2>3. \A p, q \in Spans : p # q => trees'[p] \intersect trees'[q] = {}
    BY <1>3, <1>7, <2>2 DEF Conservation
  <2>4. nodes' = adopted' \union waiting' \union ready'
    BY <1>0, <1>4, <1>5 DEF Conservation
  <2> QED
    BY <1>4, <2>1, <2>3, <2>4 DEF Conservation
<1>12. ParentsInPlace'
  BY <1>4, <1>6 DEF ParentsInPlace, IsRoot
<1>13. RootInTree'
  BY <1>1, <1>7 DEF RootInTree
<1> QED
  BY <1>10, <1>11, <1>12, <1>13

LEMMA ForestKeeps ==
  ASSUME ForestInv, [ForestNext]_forestVars
  PROVE  ForestInv'
<1>1. CASE UNCHANGED forestVars
  <2>1. Taken' = Taken
    BY <1>1 DEF forestVars, Taken
  <2> QED
    BY <1>1, <2>1 DEF forestVars, ForestInv, ForestTypeOK, Conservation, ParentsInPlace,
                      IsRoot, RootInTree
<1>2. CASE ForestNext
  BY <1>2, AddKeeps, AgeKeeps, TakeKeeps, DrainKeeps DEF ForestNext
<1> QED
  BY <1>1, <1>2

\* Forest, tree.rs: whoever uses it, and however long, the forest loses no
\* span and hands none out twice.
THEOREM ForestConserves == ForestSpec => [](Conservation /\ ParentsInPlace)
<1>1. ForestInv => Conservation /\ ParentsInPlace
  BY DEF ForestInv
<1> QED
  BY <1>1, ForestStarts, ForestKeeps, PTL DEF ForestSpec

-----------------------------------------------------------------------------
\* The loop gives the forest no event twice.

Elements(q) == {q[i] : i \in 1..Len(q)}

NoRepeat(q) == \A i, j \in 1..Len(q) : q[i] = q[j] => i = j

LoopInv ==
  /\ arrived \subseteq Spans
  /\ queue \in Seq(arrived)
  /\ batch \in Seq(arrived)
  /\ NoRepeat(queue)
  /\ NoRepeat(batch)
  /\ Elements(queue) \intersect Elements(batch) = {}
  /\ added \subseteq arrived
  /\ added \intersect (Elements(queue) \union Elements(batch)) = {}
  /\ pc # "add" => batch = <<>>

LEMMA ArriveKeeps ==
  ASSUME LoopInv, NEW s \in Spans, Arrive(s)
  PROVE  LoopInv'
<1> USE DEF LoopInv, Arrive, forestVars
<1>1. /\ Len(queue') = Len(queue) + 1
      /\ \A i \in 1..Len(queue) : queue'[i] = queue[i] /\ queue'[i] \in arrived
      /\ queue'[Len(queue) + 1] = s
  OBVIOUS
<1>2. queue' \in Seq(arrived') /\ batch' \in Seq(arrived')
  <2>1. queue \in Seq(arrived') /\ s \in arrived'
    <3>1. arrived \subseteq arrived'
      OBVIOUS
    <3> QED
      BY <3>1
  <2>2. batch \in Seq(arrived')
    <3>1. arrived \subseteq arrived'
      OBVIOUS
    <3> QED
      BY <3>1
  <2> QED
    BY <2>1, <2>2
<1>3. Len(queue) \in Nat
  OBVIOUS
<1>4. NoRepeat(queue)'
  BY <1>1, <1>3 DEF NoRepeat
<1>5. Elements(queue)' = Elements(queue) \union {s}
  BY <1>1, <1>3 DEF Elements
<1>6. \A i \in 1..Len(batch) : batch[i] \in arrived
  OBVIOUS
<1>7. s \notin Elements(batch)
  BY <1>6 DEF Elements
<1>8. UNCHANGED <<batch, added, pc>> /\ s \notin arrived
  OBVIOUS
<1>9. NoRepeat(batch)' /\ Elements(batch)' = Elements(batch)
  BY <1>8 DEF NoRepeat, Elements
<1>10. arrived' = arrived \union {s}
  OBVIOUS
<1> QED
  BY <1>2, <1>4, <1>5, <1>7, <1>8, <1>9, <1>10

LEMMA FetchKeeps ==
  ASSUME LoopInv, Fetch
  PROVE  LoopInv'
BY DEF LoopInv, Fetch, forestVars, NoRepeat, Elements

LEMMA AddNextKeeps ==
  ASSUME LoopInv, AddNext
  PROVE  LoopInv' /\ Head(batch) \in Spans \ added
<1> DEFINE s == Head(batch)
<1> USE DEF LoopInv, AddNext
<1>1. /\ s = batch[1]
      /\ Len(batch) \in Nat \ {0}
      /\ Len(batch') = Len(batch) - 1
      /\ \A i \in 1..Len(batch') : batch'[i] = batch[i + 1]
      /\ batch' \in Seq(arrived)
  OBVIOUS
<1>2. s \in Elements(batch)
  BY <1>1 DEF Elements
<1>3. s \in arrived
  BY <1>1
<1>4. added' = added \union {s} /\ UNCHANGED <<arrived, queue, pc>> /\ pc = "add"
  BY DEF Add
<1> HIDE DEF s
<1>5. \A i \in 1..Len(batch') : i + 1 \in 1..Len(batch) /\ i + 1 # 1 /\ 1 \in 1..Len(batch)
  BY <1>1
<1>6. NoRepeat(batch)'
  BY <1>1, <1>5 DEF NoRepeat
<1>7. Elements(batch)' \subseteq Elements(batch) /\ s \notin Elements(batch)'
  BY <1>1, <1>5 DEF Elements, NoRepeat
<1>8. NoRepeat(queue)' /\ Elements(queue)' = Elements(queue)
  BY <1>4 DEF NoRepeat, Elements
<1> QED
  BY <1>1, <1>2, <1>3, <1>4, <1>6, <1>7, <1>8 DEF s

\* What a step of the loop may do to the forest is what the forest allows.
LEMMA LoopUsesForest ==
  ASSUME LoopInv, [Next]_vars
  PROVE  [ForestNext]_forestVars
<1>1. ASSUME NEW s \in Spans, Arrive(s) \/ GraceElapses(s)
      PROVE  [ForestNext]_forestVars
  BY <1>1 DEF Arrive, GraceElapses, ForestNext
<1>2. CASE AddNext
  BY <1>2, AddNextKeeps DEF AddNext, ForestNext
<1>3. ASSUME NEW r \in Spans, TakeRoot(r)
      PROVE  [ForestNext]_forestVars
  BY <1>3 DEF TakeRoot, ForestNext
<1>4. CASE Finish
  BY <1>4 DEF Finish, ForestNext
<1>5. CASE DeadlinePasses \/ ClientLeaves \/ Fetch \/ AddedAll \/ Stop \/ FlushAndSleep
  BY <1>5 DEF DeadlinePasses, ClientLeaves, Fetch, AddedAll, Stop, FlushAndSleep
<1>6. CASE Terminating \/ UNCHANGED vars
  BY <1>6 DEF Terminating, vars
<1> QED
  BY <1>1, <1>2, <1>3, <1>4, <1>5, <1>6 DEF Next, Loop

LEMMA LoopKeeps ==
  ASSUME LoopInv, [Next]_vars
  PROVE  LoopInv'
<1> DEFINE Kept == UNCHANGED <<arrived, queue, batch, added>>
<1>1. ASSUME Kept, pc # "add" \/ pc' = pc \/ batch = <<>>
      PROVE  LoopInv'
  <2>1. pc' # "add" => batch' = <<>>
    BY <1>1 DEF LoopInv
  <2>2. UNCHANGED <<Elements(queue), Elements(batch), NoRepeat(queue), NoRepeat(batch)>>
    BY <1>1 DEF NoRepeat, Elements
  <2>3. UNCHANGED <<arrived, queue, batch, added>>
    BY <1>1
  <2> QED
    BY <2>1, <2>2, <2>3 DEF LoopInv
<1>2. ASSUME NEW s \in Spans, Arrive(s) \/ GraceElapses(s)
      PROVE  LoopInv'
  BY <1>1, <1>2, ArriveKeeps DEF GraceElapses, Age, loopVars
<1>3. ASSUME NEW r \in Spans, TakeRoot(r)
      PROVE  LoopInv'
  BY <1>1, <1>3 DEF TakeRoot, Take
<1>4. CASE AddNext
  BY <1>4, AddNextKeeps
<1>5. CASE Fetch
  BY <1>5, FetchKeeps
<1>6. CASE Finish
  BY <1>1, <1>6 DEF Finish, Drain
<1>7. CASE DeadlinePasses \/ ClientLeaves \/ AddedAll \/ Stop \/ FlushAndSleep
  BY <1>1, <1>7 DEF DeadlinePasses, ClientLeaves, AddedAll, Stop, FlushAndSleep, forestVars
<1>8. CASE Terminating \/ UNCHANGED vars
  BY <1>1, <1>8 DEF Terminating, vars, forestVars, loopVars
<1> QED
  BY <1>2, <1>3, <1>4, <1>5, <1>6, <1>7, <1>8 DEF Next, Loop

LEMMA LoopStarts == Init => ForestInv /\ LoopInv
<1>1. Init => LoopInv
  BY DEF Init, ForestInit, LoopInv, NoRepeat, Elements
<1> QED
  BY <1>1, ForestStarts DEF Init

LEMMA TraceInvariant == Spec => [](ForestInv /\ LoopInv)
BY LoopStarts, LoopKeeps, LoopUsesForest, ForestKeeps, PTL DEF Spec

\* cmd_trace and cmd_stack, agent.rs: every event the command reads is in the
\* forest or in exactly one of the trees it takes, at every moment.
THEOREM TraceConserves == Spec => []Conservation
<1>1. ForestInv => Conservation
  BY DEF ForestInv
<1> QED
  BY <1>1, TraceInvariant, PTL

\* The same commands never keep a span parked, or hidden below another, while
\* what it waits for or hangs from is not as the forest believes.
THEOREM TraceParentsInPlace == Spec => []ParentsInPlace
<1>1. ForestInv => ParentsInPlace
  BY DEF ForestInv
<1> QED
  BY <1>1, TraceInvariant, PTL

\* A behaviour of either command, seen at its forest alone, is a behaviour
\* of Forest: the loop calls the forest in no way that Forest does not allow.
THEOREM TraceImplementsForest == Spec => ForestSpec
<1>1. Init => ForestInit
  BY DEF Init
<1> QED
  BY <1>1, TraceInvariant, LoopUsesForest, PTL DEF Spec, ForestSpec

\* trace and stack keep every event they read in exactly one place, and park it
\* only while its parent is missing: any spans, parents and order.
THEOREM TracePlaces == Spec => []Placed
<1>1. Conservation /\ ParentsInPlace => Placed
  BY DEF Placed
<1> QED BY <1>1, TraceConserves, TraceParentsInPlace, PTL

-----------------------------------------------------------------------------
(* Trees stay whole.                                                       *)

\* A span parked below a parent that came is one that came too late; a root
\* that waits to be taken is one by its event or by the grace window; and as
\* long as the command adds spans, the parent of a call it has shown is known
\* unless the window had passed.
Whole ==
  /\ \A c \in waiting : parent[c] \in added => c \in late
  /\ \A c \in ready : IsRoot(c) \/ c \in expired
  /\ ~Ended => \A c \in Taken : IsRoot(c) \/ c \in expired \/ parent[c] \in added
  /\ KeptTogether
  /\ NothingLeftBehind

Control ==
  /\ command \in {"trace", "stack"}
  /\ pc \in {"fetch", "add", "take", "tail", "done", "gone"}
  /\ printed \in Nat /\ overdue \in BOOLEAN /\ client \in BOOLEAN /\ unsent \in BOOLEAN

\* A parent that can have a child has the smaller number.
LEMMA NotRoot ==
  ASSUME ForestInv, NEW c \in Spans
  PROVE  (parent[c] \in added \intersect 1..(c - 1)) <=> (parent[c] \in added /\ ~IsRoot(c))
<1>1. c \in Nat \ {0}
  BY SpansAssumption
<1>2. parent[c] \in Spans \union {0}
  BY DEF ForestInv, ForestTypeOK
<1>3. parent[c] \in Nat
  <2>1. \A x \in Spans : x \in Nat
    BY SpansAssumption
  <2>2. 0 \in Nat
    OBVIOUS
  <2> QED BY <1>2, <2>1, <2>2, Zenon
<1>4. \A p \in added : p \in Nat \ {0}
  BY SpansAssumption DEF ForestInv, ForestTypeOK
<1> QED BY <1>1, <1>3, <1>4 DEF IsRoot

LEMMA AddWhole ==
  ASSUME ForestInv, Whole, NEW s \in Spans \ added, Add(s), pc = "add", pc' = "add"
  PROVE  Whole'
<1> USE DEF ForestInv
<1>1. /\ Taken' = Taken /\ added' = added \union {s} /\ parent' = parent /\ trees' = trees
      /\ expired' = expired \union aged
      /\ late' = late \union If(parent[s] \in Taken, {s})
      /\ waiting' = (StillWaiting \ AdoptedBy(s)) \union If(Parks(s), {s})
      /\ ready' = ready \union ReleasedBy(s)
  BY DEF Add, Taken
<1>2. \A c : IsRoot(c)' <=> IsRoot(c)
  BY <1>1 DEF IsRoot
<1>3. added = nodes \union Taken /\ waiting \subseteq Spans /\ ready \subseteq Spans /\ Taken \subseteq Spans
  BY DEF Conservation, ForestTypeOK, Taken
<1>4. ASSUME NEW c \in waiting', parent'[c] \in added'
      PROVE  c \in late'
  <2>1. CASE c = s /\ Parks(s)
    <3>1. parent[s] # s
      <4>1. s \in Nat
        BY SpansAssumption
      <4>2. ~(parent[s] >= s) \/ parent[s] = 0
        BY <2>1 DEF Parks, IsRoot
      <4>3. s # 0
        BY SpansAssumption
      <4> QED BY <4>1, <4>2, <4>3
    <3>2. parent[s] \in Taken
      BY <1>1, <1>3, <1>4, <2>1, <3>1 DEF Parks
    <3> QED BY <1>1, <2>1, <3>2 DEF If
  <2>2. CASE c \in StillWaiting \ AdoptedBy(s)
    <3>1. c \in waiting /\ parent[c] # s
      BY <2>2 DEF StillWaiting, AdoptedBy
    <3>2. parent[c] \in added
      BY <1>1, <1>4, <3>1
    <3> QED BY <1>1, <3>1, <3>2 DEF Whole
  <2> QED BY <1>1, <1>4, <2>1, <2>2 DEF If
<1>5. ASSUME NEW c \in ready' PROVE IsRoot(c)' \/ c \in expired'
  <2>1. c \in ready \/ c \in aged \/ (c = s /\ IsRoot(s))
    BY <1>1, <1>5 DEF ReleasedBy, If
  <2> QED BY <1>1, <1>2, <2>1 DEF Whole
<1>6. ~Ended
  BY DEF Ended
<1>7. \A c \in Taken' : IsRoot(c)' \/ c \in expired' \/ parent'[c] \in added'
  BY <1>1, <1>2, <1>6 DEF Whole
<1>8. KeptTogether'
  <2> SUFFICES ASSUME NEW c \in Taken', c \notin expired' \union late',
                      parent'[c] \in added' \intersect 1..(c - 1),
                      NEW r \in Spans, c \in trees'[r]
               PROVE  parent'[c] \in trees'[r]
    BY DEF KeptTogether
  <2>1. c \in Taken /\ c \notin expired \union late /\ c \in Spans
    BY <1>1, <1>3
  <2>2. ~IsRoot(c)
    <3>1. c \in Nat /\ parent[c] \in 1..(c - 1)
      BY <1>1, <2>1, SpansAssumption
    <3> QED BY <3>1 DEF IsRoot
  <2>3. parent[c] \in added
    BY <1>6, <2>1, <2>2 DEF Whole
  <2>4. parent[c] \in added \intersect 1..(c - 1)
    BY <1>1, <2>3
  <2> QED BY <1>1, <2>1, <2>4 DEF Whole, KeptTogether
<1>9. NothingLeftBehind'
  BY DEF NothingLeftBehind
<1> QED BY <1>4, <1>5, <1>7, <1>8, <1>9 DEF Whole

LEMMA TakeWhole ==
  ASSUME ForestInv, ForestInv', Whole, NEW r \in Spans, Take(r), ~Ended, pc' # "done"
  PROVE  Whole'
<1> DEFINE T == Subtree(r)
<1>0. r \in ready \union waiting /\ r \in ready
  BY DEF Take
<1>1. r \in T /\ T \subseteq nodes
  BY <1>0, SubtreeBasics
<1>2. \A c \in T : c # r => parent[c] \in T
  BY <1>0, SubtreeParents
<1>3. /\ ready' \subseteq ready /\ trees' = [trees EXCEPT ![r] = T]
      /\ UNCHANGED <<parent, waiting, aged, added, expired, late>>
  BY DEF Take
<1> HIDE DEF T
<1> USE DEF ForestInv
<1>4. \A q \in Spans : trees'[q] = IF q = r THEN T ELSE trees[q]
  BY <1>3 DEF ForestTypeOK
<1>5. \A c : IsRoot(c)' <=> IsRoot(c)
  BY <1>3 DEF IsRoot
<1>6. added = nodes \union Taken /\ nodes \intersect Taken = {}
  BY DEF Conservation
<1>7. trees[r] = {}
  BY <1>1, <1>6 DEF RootInTree, Taken
<1>8. Taken' = Taken \union T
  BY <1>4, <1>7 DEF Taken
<1>9. \A c \in T : IsRoot(c) \/ c \in expired \/ (parent[c] \in T /\ parent[c] \in added)
  BY <1>0, <1>1, <1>2, <1>6 DEF Whole
<1>10. \A c \in waiting' : parent'[c] \in added' => c \in late'
  BY <1>3 DEF Whole
<1>11. \A c \in ready' : IsRoot(c)' \/ c \in expired'
  BY <1>3, <1>5 DEF Whole
<1>12. \A c \in Taken' : IsRoot(c)' \/ c \in expired' \/ parent'[c] \in added'
  BY <1>3, <1>5, <1>8, <1>9 DEF Whole
<1>13. KeptTogether'
  <2> SUFFICES ASSUME NEW c \in Taken', c \notin expired' \union late',
                      parent'[c] \in added' \intersect 1..(c - 1),
                      NEW q \in Spans, c \in trees'[q]
               PROVE  parent'[c] \in trees'[q]
    BY DEF KeptTogether
  <2>1. c \in Spans /\ parent[c] \in added \intersect 1..(c - 1) /\ c \notin expired \union late
    BY <1>3 DEF Taken, ForestTypeOK
  <2>2. ~IsRoot(c)
    BY <2>1, NotRoot
  <2>3. CASE q = r
    BY <1>3, <1>4, <1>9, <2>1, <2>2, <2>3
  <2>4. CASE q # r
    <3>1. c \in trees[q] /\ c \in Taken
      BY <1>4, <2>4 DEF Taken
    <3>2. parent[c] \in trees[q]
      BY <2>1, <3>1 DEF Whole, KeptTogether
    <3> QED BY <1>3, <1>4, <2>4, <3>2
  <2> QED BY <2>3, <2>4
<1>14. NothingLeftBehind'
  BY DEF NothingLeftBehind
<1> QED BY <1>10, <1>11, <1>12, <1>13, <1>14 DEF Whole

\* A non-empty set of naturals has a least element.
LEMMA Least ==
  ASSUME NEW T, T \subseteq Nat, T # {}
  PROVE  \E x \in T : \A y \in T : x <= y
<1>1. PICK x \in T : \A y \in T : ~ (<<y, x>> \in OpToRel(<, Nat))
  BY NatLessThanWellFounded, WFMin
<1>2. \A y \in T : ~ (y < x)
  BY <1>1 DEF OpToRel
<1> QED BY <1>2

\* Every node hangs, from parent to smaller parent, below one that does not.
LEMMA AllHang ==
  ASSUME ForestInv
  PROVE  nodes = UNION {Subtree(r) : r \in LastRoots}
<1> DEFINE leaving == UNION {Subtree(r) : r \in LastRoots}
           left == nodes \ leaving
<1>0. LastRoots = ready \union waiting /\ nodes = adopted \union waiting \union ready
  BY DEF LastRoots, ForestInv, Conservation
<1>1. /\ LastRoots \subseteq leaving /\ leaving \subseteq nodes
      /\ \A c \in adopted : parent[c] \in leaving => c \in leaving
  BY <1>0, SubtreeBasics
<1> HIDE DEF leaving
<1>2. SUFFICES ASSUME left # {} PROVE FALSE
  BY <1>1 DEF leaving
<1>3. left \subseteq Nat
  BY SpansAssumption DEF ForestInv, ForestTypeOK
<1>4. PICK c \in left : \A d \in left : c <= d
  <2> HIDE DEF left
  <2> QED BY <1>2, <1>3, Least
<1>5. c \in adopted /\ c \in Spans
  BY <1>0, <1>1 DEF ForestInv, ForestTypeOK
<1>6. parent[c] \in nodes /\ ~IsRoot(c)
  BY <1>5 DEF ForestInv, ParentsInPlace
<1>7. parent[c] \in left
  BY <1>1, <1>5, <1>6
<1>8. c \in Nat /\ parent[c] \in Nat /\ parent[c] < c
  BY <1>3, <1>5, <1>6, <1>7 DEF IsRoot
<1> QED BY <1>4, <1>7, <1>8

LEMMA DrainWhole ==
  ASSUME ForestInv, ForestInv', Whole, Drain, Ended'
  PROVE  Whole'
<1> DEFINE T(r) == Subtree(r)
<1>0. LastRoots = ready \union waiting /\ LastRoots \subseteq Spans
  BY DEF LastRoots, ForestInv, Conservation, ForestTypeOK
<1>1. \A r \in LastRoots : /\ r \in T(r) /\ T(r) \subseteq nodes
                           /\ \A c \in T(r) : c # r => parent[c] \in T(r)
  BY <1>0, SubtreeBasics, SubtreeParents
<1>2. /\ trees' = [r \in Spans |-> IF r \in LastRoots THEN T(r) ELSE trees[r]]
      /\ ready' = {} /\ waiting' = {} /\ UNCHANGED <<parent, added, expired, late>>
  BY DEF Drain
<1>3. nodes' = {}
  BY AllHang DEF Drain
<1> HIDE DEF T
<1> USE DEF ForestInv
<1>4. \A r \in Spans : trees'[r] = IF r \in LastRoots THEN T(r) ELSE trees[r]
  BY <1>2
<1>5. KeptTogether'
  <2> SUFFICES ASSUME NEW c \in Taken', c \notin expired' \union late',
                      parent'[c] \in added' \intersect 1..(c - 1),
                      NEW q \in Spans, c \in trees'[q]
               PROVE  parent'[c] \in trees'[q]
    BY DEF KeptTogether
  <2>1. c \in Spans /\ parent[c] \in added \intersect 1..(c - 1) /\ c \notin expired \union late
    BY <1>2 DEF Taken, ForestTypeOK
  <2>2. ~IsRoot(c)
    BY <2>1, NotRoot
  <2>3. CASE q \in LastRoots
    <3>1. c \in T(q)
      BY <1>4, <2>3
    <3>2. c # q
      BY <1>0, <2>1, <2>2, <2>3 DEF Whole
    <3> QED BY <1>1, <1>2, <1>4, <2>3, <3>1, <3>2
  <2>4. CASE q \notin LastRoots
    <3>1. c \in trees[q] /\ c \in Taken
      BY <1>4, <2>4 DEF Taken
    <3>2. parent[c] \in trees[q]
      BY <2>1, <3>1 DEF Whole, KeptTogether
    <3> QED BY <1>2, <1>4, <2>4, <3>2
  <2> QED BY <2>3, <2>4
<1>6. NothingLeftBehind'
  BY <1>2, <1>3 DEF NothingLeftBehind, Conservation
<1> QED BY <1>2, <1>5, <1>6 DEF Whole

LEMMA WholeStarts ==
  ASSUME Init
  PROVE  Whole /\ Control
<1>1. Taken = {}
  BY DEF Init, ForestInit, Taken
<1> QED BY <1>1 DEF Init, ForestInit, Whole, Control, KeptTogether, NothingLeftBehind

LEMMA WholeKeeps ==
  ASSUME ForestInv, ForestInv', LoopInv, Whole, [Next]_vars
  PROVE  Whole'
<1>1. ASSUME UNCHANGED <<parent, waiting, ready, added, expired, late, trees, nodes>>,
             Ended' \/ ~Ended, pc' = "done" => pc = "done"
      PROVE  Whole'
  <2>1. Taken' = Taken /\ \A c : IsRoot(c)' <=> IsRoot(c)
    BY <1>1 DEF Taken, IsRoot
  <2>2. KeptTogether'
    BY <1>1, <2>1 DEF Whole, KeptTogether
  <2>3. NothingLeftBehind'
    BY <1>1, <2>1 DEF Whole, NothingLeftBehind
  <2> QED BY <1>1, <2>1, <2>2, <2>3 DEF Whole
<1>2. CASE AddNext
  <2>1. Head(batch) \in Spans \ added
    BY <1>2, AddNextKeeps
  <2>2. Add(Head(batch)) /\ pc = "add" /\ pc' = "add"
    BY <1>2 DEF AddNext
  <2> QED BY <2>1, <2>2, AddWhole
<1>3. ASSUME NEW r \in Spans, TakeRoot(r) PROVE Whole'
  <2>1. Take(r) /\ ~Ended /\ pc' # "done"
    BY <1>3 DEF TakeRoot, Ended
  <2> QED BY <2>1, TakeWhole
<1>4. CASE Finish
  <2>1. Drain /\ Ended'
    BY <1>4 DEF Finish, Ended
  <2> QED BY <2>1, DrainWhole
<1>5. ASSUME NEW s \in Spans, Arrive(s) \/ GraceElapses(s) PROVE Whole'
  <2>1. /\ UNCHANGED <<parent, waiting, ready, added, expired, late, trees, nodes>>
        /\ pc' = pc
    BY <1>5 DEF Arrive, GraceElapses, Age, forestVars, loopVars
  <2> QED BY <1>1, <2>1 DEF Ended
<1>6. CASE DeadlinePasses \/ ClientLeaves \/ Terminating \/ UNCHANGED vars
  <2>1. /\ UNCHANGED <<parent, waiting, ready, added, expired, late, trees, nodes>>
        /\ pc' = pc
    BY <1>6 DEF DeadlinePasses, ClientLeaves, Terminating, vars, forestVars, loopVars
  <2> QED BY <1>1, <2>1 DEF Ended
<1>7. CASE Fetch \/ AddedAll \/ Stop \/ FlushAndSleep
  <2>1. /\ UNCHANGED <<parent, waiting, ready, added, expired, late, trees, nodes>>
        /\ ~Ended /\ pc' # "done"
    BY <1>7 DEF Fetch, AddedAll, Stop, FlushAndSleep, forestVars, Ended
  <2> QED BY <1>1, <2>1
<1> QED BY <1>2, <1>3, <1>4, <1>5, <1>6, <1>7 DEF Next, Loop

LEMMA ControlKeeps ==
  ASSUME Control, [Next]_vars
  PROVE  Control'
<1>1. ASSUME NEW s \in Spans, Arrive(s) \/ GraceElapses(s) PROVE Control'
  BY <1>1 DEF Control, Arrive, GraceElapses, loopVars
<1>2. ASSUME NEW r \in Spans, TakeRoot(r) PROVE Control'
  <2>1. command' = command /\ overdue' = overdue /\ client' = client
    BY <1>2 DEF TakeRoot
  <2>2. /\ unsent' = TRUE \/ unsent' = unsent
        /\ printed' = printed + 1 \/ printed' = printed
        /\ pc' = pc \/ pc' = "gone"
    BY <1>2 DEF TakeRoot
  <2>3. unsent' \in BOOLEAN
    BY <2>2, Zenon DEF Control
  <2>4. printed' \in Nat /\ pc' \in {"fetch", "add", "take", "tail", "done", "gone"}
    BY <2>2 DEF Control
  <2> QED BY <2>1, <2>3, <2>4, Zenon DEF Control
<1>3. CASE Fetch \/ AddNext \/ AddedAll \/ Stop \/ FlushAndSleep \/ Finish
  BY <1>3 DEF Control, Fetch, AddNext, AddedAll, Stop, FlushAndSleep, Finish
<1>4. CASE DeadlinePasses \/ ClientLeaves \/ Terminating \/ UNCHANGED vars
  BY <1>4 DEF Control, DeadlinePasses, ClientLeaves, Terminating, vars, loopVars
<1> QED BY <1>1, <1>2, <1>3, <1>4 DEF Next, Loop

\* cmd_trace and cmd_stack show a call below its caller unless the grace window
\* released it or its caller had already been taken, and keep nothing back when
\* they end by themselves: no chain of adopted spans closes on itself.
THEOREM TracesAreWhole == Spec => []TreesWhole
<1>1. Init => ForestInv /\ LoopInv /\ Whole /\ Control
  BY LoopStarts, WholeStarts
<1>2. ForestInv /\ LoopInv /\ Whole /\ Control /\ [Next]_vars
        => ForestInv' /\ LoopInv' /\ Whole' /\ Control'
  BY LoopKeeps, LoopUsesForest, ForestKeeps, WholeKeeps, ControlKeeps
<1>3. ForestInv /\ LoopInv /\ Whole /\ Control => TreesWhole
  <2> SUFFICES ASSUME ForestInv, LoopInv, Whole, Control PROVE TreesWhole
    OBVIOUS
  <2>1. queue \in Seq(Spans) /\ batch \in Seq(Spans)
    BY DEF LoopInv
  <2> QED BY <2>1 DEF ForestInv, LoopInv, Whole, Control, TreesWhole, TypeOK
<1> QED BY <1>1, <1>2, <1>3, PTL DEF Spec

-----------------------------------------------------------------------------
(* The ring and its streams, for every capacity, every set of streams and   *)
(* any number of events: the ring is the newest part of what was pushed,    *)
(* its counters add up, a stream misses nothing but to an overrun, and the  *)
(* ring implements EventLog.                                                *)

USE RecorderAssumption

\* The inductive invariant.  It adds to the checked ones only that the
\* history is as long as the sequence numbers handed out.
RingInv ==
  /\ RecorderTypes
  /\ Len(hist) = last_seq
  /\ NewestWithoutHole
  /\ Accounting

LEMMA CapacityPositive == capacity \in Nat /\ capacity >= 1
  BY DEF capacity

\* Numbers that rise by one from the front form an interval.
LEMMA SeqsInterval ==
  ASSUME NEW b \in Seq(Event), NEW n \in Nat, Len(b) <= n,
         \A i \in DOMAIN b : b[i].seq = n - Len(b) + i
  PROVE  Seqs(b) = n - Len(b) + 1 .. n
<1>1. Len(b) \in Nat /\ DOMAIN b = 1 .. Len(b)
  OBVIOUS
<1>2. ASSUME NEW s \in Seqs(b)
      PROVE  s \in n - Len(b) + 1 .. n
  <2>1. PICK i \in 1 .. Len(b) : s = b[i].seq
    BY <1>1 DEF Seqs
  <2>2. s = n - Len(b) + i
    BY <1>1, <2>1
  <2>3. QED BY <1>1, <2>2
<1>3. ASSUME NEW s \in n - Len(b) + 1 .. n
      PROVE  s \in Seqs(b)
  <2>1. s - (n - Len(b)) \in 1 .. Len(b)
    BY <1>1
  <2>2. b[s - (n - Len(b))].seq = s
    BY <1>1, <2>1
  <2>3. QED BY <1>1, <2>1, <2>2 DEF Seqs
<1>4. QED BY <1>2, <1>3

\* In particular those of the ring, which end at the newest one.
LEMMA RingSeqs ==
  ASSUME RecorderTypes, NewestWithoutHole
  PROVE  Seqs(buf) = last_seq - Len(buf) + 1 .. last_seq
<1>1. /\ last_seq \in Nat /\ Len(buf) <= last_seq /\ buf \in Seq(Event)
      /\ \A i \in DOMAIN buf : buf[i].seq = last_seq - Len(buf) + i
  BY DEF RecorderTypes, NewestWithoutHole, last_seq
<1>2. QED BY <1>1, SeqsInterval

LEMMA SinceInterval ==
  ASSUME RecorderTypes, NewestWithoutHole, NEW c \in Nat
  PROVE  Since(c) = {s \in last_seq - Len(buf) + 1 .. last_seq : s > c}
  BY RingSeqs DEF Since

LEMMA MaxSince ==
  ASSUME RecorderTypes, NewestWithoutHole, NEW c \in Nat, Since(c) # {}
  PROVE  Max(Since(c)) = last_seq
<1>1. last_seq \in Nat /\ Len(buf) \in Nat
  BY DEF RecorderTypes, last_seq
<1>2. last_seq \in Since(c) /\ \A s \in Since(c) : s \in Int /\ last_seq >= s
  BY <1>1, SinceInterval
<1> DEFINE S == Since(c)
<1>3. \E m \in S : \A s \in S : m >= s
  BY <1>2
<1>4. Max(S) \in S /\ \A s \in S : Max(S) >= s
  <2> HIDE DEF S
  <2>1. QED BY <1>3, Zenon DEF Max
<1>5. PICK m \in S : m = Max(S) /\ \A s \in S : m >= s
  BY <1>4
<1>6. m \in Int /\ m >= last_seq /\ last_seq >= m
  BY <1>2, <1>5
<1>7. m = last_seq
  BY <1>1, <1>6
<1>8. QED BY <1>5, <1>7

LEMMA LastSeqType == RecorderTypes => last_seq \in Nat
  BY DEF RecorderTypes, last_seq

-----------------------------------------------------------------------------

LEMMA InitRing == RecorderInit => RingInv
  BY CapacityPositive
     DEF RecorderInit, RingInv, RecorderTypes, NewestWithoutHole, Accounting, last_seq, Event

LEMMA PushRing ==
  ASSUME RingInv, NEW d \in Payloads, Push(d)
  PROVE  RingInv'
<1> DEFINE e == [seq |-> next_seq, data |-> d]
<1>1. /\ RecorderTypes /\ NewestWithoutHole /\ Accounting
      /\ Len(buf) \in Nat /\ Len(buf) <= capacity /\ capacity \in Nat
      /\ capacity >= 1 /\ Len(hist) = next_seq - 1
  BY CapacityPositive DEF RingInv, RecorderTypes, NewestWithoutHole, last_seq
<1>2. e \in Event
  BY <1>1 DEF RecorderTypes, Event
<1>3. Room \in Seq(Event) /\ Len(Room) = (IF Full THEN Len(buf) - 1 ELSE Len(buf))
  BY <1>1 DEF Room, Full, RecorderTypes
<1>4. \A i \in 1 .. Len(Room) : Room[i] = (IF Full THEN buf[i + 1] ELSE buf[i])
  BY <1>1, <1>3 DEF Room, Full, RecorderTypes
<1>5. buf' = Append(Room, e) /\ hist' = Append(hist, d) /\ next_seq' = next_seq + 1
  BY DEF Push
<1>6. RecorderTypes'
  <2>1. buf' \in Seq(Event) /\ hist' \in Seq(Payloads)
    BY <1>1, <1>2, <1>3, <1>5 DEF RecorderTypes
  <2>2. kept' \in [Readers -> BOOLEAN]
    BY <1>1 DEF Push, StillKept, RecorderTypes
  <2>3. QED BY <1>1, <2>1, <2>2 DEF Push, Dropped, RecorderTypes
<1>7. Len(hist') = last_seq'
  BY <1>1, <1>5 DEF RecorderTypes, last_seq
<1>8. NewestWithoutHole'
  <2>1. Len(buf') = Len(Room) + 1 /\ Len(buf') <= capacity /\ Len(buf') <= last_seq'
    BY <1>1, <1>2, <1>3, <1>5 DEF Full, last_seq, NewestWithoutHole, RecorderTypes
  <2>2. ASSUME NEW i \in 1 .. Len(buf')
        PROVE  /\ buf'[i].seq = last_seq' - Len(buf') + i
               /\ buf'[i].data = hist'[buf'[i].seq]
    <3>1. CASE i = Len(buf')
      <4>1. buf'[i] = e
        BY <1>2, <1>3, <1>5, <2>1, <3>1
      <4>2. hist'[next_seq] = d
        BY <1>1, <1>5 DEF RecorderTypes
      <4>3. QED BY <1>1, <1>5, <3>1, <4>1, <4>2, <2>1, <1>3 DEF last_seq, RecorderTypes
    <3>2. CASE i # Len(buf')
      <4>1. i \in 1 .. Len(Room)
        BY <1>3, <2>1, <3>2
      <4>2. buf'[i] = Room[i]
        BY <1>2, <1>3, <1>5, <4>1
      <4> DEFINE j == IF Full THEN i + 1 ELSE i
      <4>3. j \in 1 .. Len(buf) /\ buf'[i] = buf[j]
        BY <1>1, <1>3, <1>4, <4>1, <4>2
      <4>4. /\ buf[j].seq = last_seq - Len(buf) + j
            /\ buf[j].data = hist[buf[j].seq]
        BY <1>1, <4>3 DEF NewestWithoutHole, RecorderTypes
      <4>5. buf[j].seq \in 1 .. Len(hist)
        BY <1>1, <4>3, <4>4 DEF last_seq, NewestWithoutHole, RecorderTypes
      <4>6. hist'[buf[j].seq] = hist[buf[j].seq]
        BY <1>1, <1>5, <4>5 DEF RecorderTypes
      <4>7. last_seq' - Len(buf') + i = last_seq - Len(buf) + j
        <5>1. last_seq \in Nat /\ last_seq' = last_seq + 1
          BY <1>1, <1>5 DEF last_seq, RecorderTypes
        <5>2. CASE Full
          BY <1>1, <1>3, <2>1, <5>1, <5>2
        <5>3. CASE ~Full
          BY <1>1, <1>3, <2>1, <5>1, <5>3
        <5>4. QED BY <5>2, <5>3
      <4>8. QED BY <4>3, <4>4, <4>6, <4>7
    <3>3. QED BY <3>1, <3>2
  <2>3. DOMAIN buf' = 1 .. Len(buf')
    BY <1>6 DEF RecorderTypes
  <2>4. QED BY <2>1, <2>2, <2>3, <1>5 DEF NewestWithoutHole, capacity
<1>9. Accounting'
  <2>1. Len(buf') = Len(Room) + 1
    BY <1>2, <1>3, <1>5
  <2>2. /\ recorded \in Nat /\ dropped \in Nat /\ gone \in Nat /\ next_seq \in Nat
        /\ recorded = next_seq - 1 /\ recorded = Len(buf) + dropped + gone
    BY <1>1 DEF RecorderTypes, Accounting, last_seq
  <2>3. /\ recorded' = recorded + 1 /\ gone' = gone
        /\ dropped' = IF Full THEN dropped + 1 ELSE dropped
    BY DEF Push, Dropped
  <2>4. recorded' = Len(buf') + dropped' + gone'
    <3>1. CASE Full
      BY <1>1, <1>3, <2>1, <2>2, <2>3, <3>1
    <3>2. CASE ~Full
      BY <1>1, <1>3, <2>1, <2>2, <2>3, <3>2
    <3>3. QED BY <3>1, <3>2
  <2>5. recorded' = next_seq' - 1
    BY <1>5, <2>2, <2>3
  <2>6. QED BY <2>4, <2>5 DEF Accounting, last_seq
<1>10. QED BY <1>6, <1>7, <1>8, <1>9 DEF RingInv

LEMMA ClearRing ==
  ASSUME RingInv, Clear
  PROVE  RingInv'
<1>1. RecorderTypes'
  BY DEF RingInv, RecorderTypes, Clear, StillKept
<1>2. Len(hist') = last_seq'
  BY DEF RingInv, Clear, last_seq
<1>3. NewestWithoutHole'
  BY CapacityPositive DEF RingInv, RecorderTypes, Clear, NewestWithoutHole, last_seq, capacity
<1>4. Accounting'
  BY DEF RingInv, RecorderTypes, Clear, Accounting, last_seq
<1>5. QED BY <1>1, <1>2, <1>3, <1>4 DEF RingInv

LEMMA ReaderRing ==
  ASSUME RingInv, NEW r \in Readers, Open(r) \/ Poll(r) \/ Close(r)
  PROVE  RingInv'
<1>1. UNCHANGED <<ring, hist, gone>>
  BY DEF Open, Poll, Close
<1>2. RecorderTypes'
  <2>1. CASE Open(r)
    BY <2>1, LastSeqType DEF RingInv, RecorderTypes, Open, ring
  <2>2. CASE Poll(r)
    <3>1. cursor[r] \in Nat /\ Max(Since(cursor[r])) \in Nat
      BY <2>2, MaxSince, LastSeqType DEF RingInv, RecorderTypes, Poll
    <3>2. Since(cursor[r]) \in SUBSET Nat
      <4>1. /\ last_seq \in Nat /\ Len(buf) \in Nat /\ Len(buf) <= last_seq
            /\ Seqs(buf) = last_seq - Len(buf) + 1 .. last_seq
        BY LastSeqType, RingSeqs DEF RingInv, RecorderTypes, NewestWithoutHole
      <4>2. QED BY <4>1 DEF Since
    <3>3. QED BY <2>2, <3>1, <3>2 DEF RingInv, RecorderTypes, Poll, ring
  <2>3. CASE Close(r)
    BY <2>3 DEF RingInv, RecorderTypes, Close, ring
  <2>4. QED BY <2>1, <2>2, <2>3
<1>3. QED
  BY <1>1, <1>2 DEF RingInv, NewestWithoutHole, Accounting, ring, last_seq, capacity

LEMMA StepRing == RingInv /\ [RecorderNext]_recorderVars => RingInv'
<1> SUFFICES ASSUME RingInv, [RecorderNext]_recorderVars PROVE RingInv'
  OBVIOUS
<1>1. ASSUME NEW d \in Payloads, Push(d) PROVE RingInv'
  BY <1>1, PushRing
<1>2. CASE Clear
  BY <1>2, ClearRing
<1>3. ASSUME NEW r \in Readers, Open(r) \/ Poll(r) \/ Close(r) PROVE RingInv'
  BY <1>3, ReaderRing
<1>4. CASE UNCHANGED recorderVars
  BY <1>4 DEF recorderVars, ring, RingInv, RecorderTypes, NewestWithoutHole, Accounting, last_seq, capacity
<1>5. QED BY <1>1, <1>2, <1>3, <1>4 DEF RecorderNext

\* The ring is well formed in every reachable state, for any capacity.
THEOREM RingCorrect == RecorderSpec => []RingInv
  BY InitRing, StepRing, PTL DEF RecorderSpec

\* Type correctness.
THEOREM TypeCorrect == RecorderSpec => []RecorderTypes
<1>1. RingInv => RecorderTypes
  BY DEF RingInv
<1>2. QED BY <1>1, RingCorrect, PTL

\* Push and clear: the buffered events are always the newest ones, in order,
\* without a hole, and unaltered.
THEOREM NewestCorrect == RecorderSpec => []NewestWithoutHole
<1>1. RingInv => NewestWithoutHole
  BY DEF RingInv
<1>2. QED BY <1>1, RingCorrect, PTL

\* The counters of `stats` and `session` add up.
THEOREM AccountingCorrect == RecorderSpec => []Accounting
<1>1. RingInv => Accounting
  BY DEF RingInv
<1>2. QED BY <1>1, RingCorrect, PTL

-----------------------------------------------------------------------------
(* Streams.  NothingLostUnlessOverrun is inductive next to RingInv.        *)

StreamInv == RingInv /\ NothingLostUnlessOverrun /\ twice = {}

LEMMA InitStream == RecorderInit => NothingLostUnlessOverrun
  BY DEF RecorderInit, NothingLostUnlessOverrun

\* A push or a `clear` leaves cursors alone; a stream stays `kept` only if
\* its unread events survive.
LEMMA RingStepStream ==
  ASSUME StreamInv, RingInv', kept' = StillKept,
         last_seq' = last_seq \/ (last_seq' = last_seq + 1 /\ Len(buf') >= 1),
         UNCHANGED <<cursor, streaming, start, got>>
  PROVE  NothingLostUnlessOverrun'
<1> SUFFICES ASSUME NEW r \in streaming
             PROVE  /\ start[r] <= cursor[r] /\ cursor[r] <= last_seq'
                    /\ got[r] \subseteq start[r] + 1 .. cursor[r]
                    /\ kept'[r] => /\ got[r] = start[r] + 1 .. cursor[r]
                                   /\ cursor[r] + 1 .. last_seq' \subseteq Seqs(buf')
  BY DEF NothingLostUnlessOverrun
<1>1. /\ r \in Readers /\ cursor[r] \in Nat /\ start[r] \in Nat
      /\ last_seq \in Nat /\ Len(buf) \in Nat
  BY LastSeqType DEF StreamInv, RingInv, RecorderTypes
<1>2. /\ start[r] <= cursor[r] /\ cursor[r] <= last_seq
      /\ got[r] \subseteq start[r] + 1 .. cursor[r]
      /\ kept[r] => /\ got[r] = start[r] + 1 .. cursor[r]
                    /\ cursor[r] + 1 .. last_seq \subseteq Seqs(buf)
  BY DEF StreamInv, NothingLostUnlessOverrun
<1>3. /\ last_seq' \in Nat /\ Len(buf') \in Nat
      /\ Seqs(buf') = last_seq' - Len(buf') + 1 .. last_seq'
  <2>1. /\ buf' \in Seq(Event) /\ Len(buf') <= last_seq' /\ last_seq' \in Nat
        /\ \A i \in DOMAIN buf' : buf'[i].seq = last_seq' - Len(buf') + i
    <3>1. RecorderTypes' /\ NewestWithoutHole'
      BY DEF RingInv
    <3>2. buf' \in Seq(Event) /\ next_seq' \in Nat \ {0}
      BY <3>1 DEF RecorderTypes
    <3>3. last_seq' \in Nat
      BY <1>1
    <3>4. QED BY <3>1, <3>2, <3>3 DEF NewestWithoutHole
  <2>2. QED BY <2>1, SeqsInterval
<1>4. ASSUME kept'[r]
      PROVE  kept[r] /\ cursor[r] + 1 .. last_seq' \subseteq Seqs(buf')
  <2>1. kept[r] /\ Since(cursor[r]) \subseteq Seqs(buf')
    BY <1>1, <1>4 DEF StillKept
  <2>2. cursor[r] + 1 .. last_seq \subseteq Seqs(buf')
    BY <1>1, <1>2, <2>1 DEF Since
  <2>3. last_seq' # last_seq => last_seq' \in Seqs(buf')
    BY <1>1, <1>3
  <2>4. QED BY <1>1, <1>2, <2>1, <2>2, <2>3
<1>5. QED BY <1>1, <1>2, <1>3, <1>4

LEMMA ReaderStepStream ==
  ASSUME StreamInv, NEW r \in Readers, Open(r) \/ Poll(r) \/ Close(r)
  PROVE  NothingLostUnlessOverrun'
<1>1. /\ RecorderTypes /\ NewestWithoutHole /\ last_seq \in Nat /\ Len(buf) \in Nat
      /\ Len(buf) <= last_seq /\ last_seq' = last_seq /\ buf' = buf
  BY LastSeqType
     DEF StreamInv, RingInv, RecorderTypes, NewestWithoutHole, Open, Poll, Close, ring, last_seq
<1> SUFFICES ASSUME NEW q \in streaming'
             PROVE  /\ start'[q] <= cursor'[q] /\ cursor'[q] <= last_seq
                    /\ got'[q] \subseteq start'[q] + 1 .. cursor'[q]
                    /\ kept'[q] => /\ got'[q] = start'[q] + 1 .. cursor'[q]
                                   /\ cursor'[q] + 1 .. last_seq \subseteq Seqs(buf)
  BY <1>1 DEF NothingLostUnlessOverrun
<1>2. q \in Readers /\ (q \in streaming \/ q = r)
  BY DEF Open, Poll, Close, StreamInv, RingInv, RecorderTypes
<1>3. q \in streaming =>
        /\ start[q] <= cursor[q] /\ cursor[q] <= last_seq
        /\ got[q] \subseteq start[q] + 1 .. cursor[q]
        /\ kept[q] => /\ got[q] = start[q] + 1 .. cursor[q]
                      /\ cursor[q] + 1 .. last_seq \subseteq Seqs(buf)
  BY DEF StreamInv, NothingLostUnlessOverrun
<1>4. CASE /\ q \in streaming
           /\ cursor'[q] = cursor[q] /\ got'[q] = got[q]
           /\ start'[q] = start[q] /\ kept'[q] = kept[q]
  BY <1>3, <1>4
<1>5. CASE q = r /\ Open(r)
  <2>1. /\ cursor'[q] = last_seq /\ start'[q] = last_seq /\ got'[q] = {}
    BY <1>1, <1>5 DEF Open, RecorderTypes
  <2>2. QED BY <1>1, <2>1
<1>6. CASE q = r /\ Poll(r)
  <2>1. /\ q \in streaming /\ cursor[q] \in Nat /\ start[q] \in Nat
        /\ cursor'[q] = last_seq /\ got'[q] = got[q] \union Since(cursor[q])
        /\ start'[q] = start[q] /\ kept'[q] = kept[q]
    BY <1>1, <1>6, MaxSince DEF Poll, RecorderTypes
  <2>2. Since(cursor[q]) \subseteq cursor[q] + 1 .. last_seq
    BY <1>1, <2>1, SinceInterval
  <2>3. kept[q] => cursor[q] + 1 .. last_seq \subseteq Since(cursor[q])
    BY <1>1, <1>3, <2>1 DEF Since
  <2>4. got'[q] \subseteq start[q] + 1 .. last_seq
    BY <1>1, <1>3, <2>1, <2>2
  <2>5. kept[q] => start[q] + 1 .. last_seq \subseteq got'[q]
    BY <1>1, <1>3, <2>1, <2>3
  <2>6. QED BY <1>1, <1>3, <2>1, <2>4, <2>5
<1>7. \/ /\ q \in streaming
         /\ cursor'[q] = cursor[q] /\ got'[q] = got[q]
         /\ start'[q] = start[q] /\ kept'[q] = kept[q]
      \/ q = r /\ (Open(r) \/ Poll(r))
  BY <1>1, <1>2 DEF Open, Poll, Close, RecorderTypes
<1>8. QED BY <1>4, <1>5, <1>6, <1>7

\* What a poll hands over is newer than the cursor, what it handed over is not.
LEMMA OnceOnly ==
  ASSUME StreamInv, NEW r \in Readers, Poll(r)
  PROVE  twice' = {} /\ \A s \in Since(cursor[r]) : s \in Nat /\ s > cursor[r]
<1>1. /\ RecorderTypes /\ NewestWithoutHole /\ last_seq \in Nat /\ Len(buf) \in Nat
      /\ Len(buf) <= last_seq /\ r \in streaming
      /\ cursor[r] \in Nat /\ start[r] \in Nat
  BY LastSeqType DEF StreamInv, RingInv, RecorderTypes, NewestWithoutHole, Poll
<1>2. \A s \in Since(cursor[r]) : s \in Nat /\ s > cursor[r]
  BY <1>1, SinceInterval
<1>3. \A s \in got[r] : s <= cursor[r]
  BY <1>1 DEF StreamInv, NothingLostUnlessOverrun
<1>4. Since(cursor[r]) \intersect got[r] = {}
  BY <1>1, <1>2, <1>3
<1>5. QED BY <1>2, <1>4 DEF Poll, StreamInv

LEMMA StepStream == StreamInv /\ [RecorderNext]_recorderVars => StreamInv'
<1> SUFFICES ASSUME StreamInv, [RecorderNext]_recorderVars PROVE StreamInv'
  OBVIOUS
<1>1. RingInv'
  BY StepRing DEF StreamInv
<1> SUFFICES NothingLostUnlessOverrun' /\ twice' = {}
  BY <1>1 DEF StreamInv
<1>0. twice' = {}
  BY OnceOnly DEF RecorderNext, Push, Clear, Open, Close, recorderVars, StreamInv
<1>2. ASSUME NEW d \in Payloads, Push(d) PROVE NothingLostUnlessOverrun'
  <2>1. last_seq' = last_seq + 1 /\ Len(buf') >= 1
    <3>1. Room \in Seq(Event) /\ [seq |-> next_seq, data |-> d] \in Event
      <4>1. buf \in Seq(Event) /\ next_seq \in Nat /\ capacity >= 1 /\ capacity \in Nat
        BY CapacityPositive DEF StreamInv, RingInv, RecorderTypes
      <4>2. QED BY <4>1 DEF Room, Full, Event
    <3>2. Len(buf') = Len(Room) + 1
      BY <1>2, <3>1 DEF Push
    <3>3. QED BY <1>2, <3>1, <3>2 DEF Push, last_seq, StreamInv, RingInv, RecorderTypes
  <2>2. QED BY <1>1, <1>2, <2>1, RingStepStream DEF Push
<1>3. ASSUME Clear PROVE NothingLostUnlessOverrun'
  BY <1>1, <1>3, RingStepStream DEF Clear, last_seq
<1>4. ASSUME NEW r \in Readers, Open(r) \/ Poll(r) \/ Close(r)
      PROVE  NothingLostUnlessOverrun'
  BY <1>4, ReaderStepStream
<1>5. ASSUME UNCHANGED recorderVars PROVE NothingLostUnlessOverrun'
  BY <1>5 DEF recorderVars, ring, StreamInv, NothingLostUnlessOverrun, last_seq, Since, Seqs
<1>6. QED BY <1>0, <1>2, <1>3, <1>4, <1>5 DEF RecorderNext

\* A stream is handed everything between its start and its cursor unless an
\* unread event was evicted or cleared: the cursor of cmd_trace and its kin.
THEOREM StreamsCorrect == RecorderSpec => []NothingLostUnlessOverrun
<1>1. RecorderInit => StreamInv
  BY InitRing, InitStream DEF StreamInv, RecorderInit
<1>2. StreamInv => NothingLostUnlessOverrun
  BY DEF StreamInv
<1>3. QED BY <1>1, <1>2, StepStream, PTL DEF RecorderSpec

\* No stream is handed an event twice or out of order.
THEOREM ReplayFree == RecorderSpec => NoReplay
<1> DEFINE Fresh == \A r \in streaming \intersect streaming' :
                      \A new \in got'[r] \ got[r] : \A old \in got[r] : new > old
<1>1. StreamInv /\ StreamInv' /\ [RecorderNext]_recorderVars => [twice' = {} /\ Fresh]_recorderVars
  <2> SUFFICES ASSUME StreamInv, StreamInv', RecorderNext,
                      NEW r \in streaming \intersect streaming',
                      NEW new \in got'[r] \ got[r], NEW old \in got[r]
               PROVE  new > old
    BY DEF StreamInv
  <2>1. r \in Readers /\ cursor[r] \in Nat /\ start[r] \in Nat
    BY DEF StreamInv, RingInv, RecorderTypes
  <2>2. old \in start[r] + 1 .. cursor[r]
    BY DEF StreamInv, NothingLostUnlessOverrun
  <2>3. Poll(r)
    <3>1. got'[r] # got[r] /\ got \in [Readers -> SUBSET Nat] /\ r \in streaming
      BY DEF StreamInv, RingInv, RecorderTypes
    <3>2. \A q \in Readers : Open(q) => got'[r] = got[r]
      BY <2>1, <3>1 DEF Open
    <3>3. \A q \in Readers : Poll(q) /\ q # r => got'[r] = got[r]
      BY <2>1, <3>1 DEF Poll
    <3>4. \E q \in Readers : Poll(q)
      BY <3>1, <3>2 DEF RecorderNext, Push, Clear, Close
    <3>5. QED BY <3>1, <3>3, <3>4
  <2>4. new \in Since(cursor[r])
    BY <2>1, <2>3 DEF Poll, StreamInv, RingInv, RecorderTypes
  <2>5. new \in Nat /\ new > cursor[r]
    BY <2>1, <2>3, <2>4, OnceOnly
  <2>6. QED BY <2>1, <2>2, <2>5
<1>2. RecorderInit => StreamInv
  BY InitRing, InitStream DEF StreamInv, RecorderInit
<1>3. QED BY <1>1, <1>2, StepStream, PTL DEF RecorderSpec, NoReplay

-----------------------------------------------------------------------------
(* The ring implements the trimmed log.                                    *)

LEMMA InitLog == RecorderInit => Log!Init
<1> SUFFICES ASSUME RecorderInit PROVE Log!Init
  OBVIOUS
<1>1. last_seq = 0 /\ Len(buf) = 0
  BY DEF RecorderInit, last_seq
<1>2. last_seq - Len(buf) = 0
  BY <1>1
<1>3. QED BY <1>2 DEF RecorderInit, Log!Init

LEMMA PushLog ==
  ASSUME RingInv, NEW d \in Payloads, Push(d)
  PROVE  Log!Append1(d)
<1>1. /\ buf \in Seq(Event) /\ next_seq \in Nat \ {0} /\ Len(hist) = next_seq - 1
      /\ capacity \in Nat /\ capacity >= 1
  BY CapacityPositive DEF RingInv, RecorderTypes, last_seq
<1>2. Room \in Seq(Event) /\ Len(Room) = (IF Full THEN Len(buf) - 1 ELSE Len(buf))
  BY <1>1 DEF Room, Full
<1>3. [seq |-> next_seq, data |-> d] \in Event
  BY <1>1 DEF Event
<1>4. Len(buf') = Len(Room) + 1 /\ next_seq' = next_seq + 1
  BY <1>2, <1>3 DEF Push
<1>5. Full <=> Len(hist) - (last_seq - Len(buf)) = capacity
  BY <1>1 DEF Full, last_seq
<1>6. last_seq' - Len(buf') =
        IF Full THEN last_seq - Len(buf) + 1 ELSE last_seq - Len(buf)
  <2>1. CASE Full
    BY <1>1, <1>2, <1>4, <2>1 DEF last_seq
  <2>2. CASE ~Full
    BY <1>1, <1>2, <1>4, <2>2 DEF last_seq
  <2>3. QED BY <2>1, <2>2
<1>7. QED BY <1>5, <1>6 DEF Push, Log!Append1

LEMMA ReaderLog ==
  ASSUME RingInv, NEW r \in Readers
  PROVE  /\ Open(r) => Log!Start(r)
         /\ Poll(r) => Log!Read(r)
         /\ Close(r) => Log!Finish(r)
<1>1. /\ RecorderTypes /\ NewestWithoutHole /\ Len(hist) = last_seq /\ last_seq \in Nat
      /\ Len(buf) \in Nat /\ Len(buf) <= last_seq /\ cursor[r] \in Nat
  BY LastSeqType DEF RingInv, RecorderTypes, NewestWithoutHole
<1>2. ASSUME Poll(r) PROVE Log!Read(r)
  <2>1. Since(cursor[r]) = {p \in last_seq - Len(buf) + 1 .. last_seq : p > cursor[r]}
    BY <1>1, SinceInterval
  <2>2. Since(cursor[r]) =
          {p \in 1 .. Len(hist) : p > cursor[r] /\ p > last_seq - Len(buf)}
    BY <1>1, <2>1
  <2>3. cursor[r] < Len(hist) /\ last_seq - Len(buf) < Len(hist)
    BY <1>1, <1>2, <2>1 DEF Poll
  <2>4. Max(Since(cursor[r])) = Len(hist)
    BY <1>1, <1>2, MaxSince DEF Poll
  <2>5. cursor' = [cursor EXCEPT ![r] = Len(hist)]
    BY <1>2, <2>4 DEF Poll
  <2>6. got' = [got EXCEPT ![r] = @ \union
                  {p \in 1 .. Len(hist) : p > cursor[r] /\ p > last_seq - Len(buf)}]
    BY <1>2, <2>2 DEF Poll
  <2>7. r \in streaming /\ UNCHANGED <<hist, streaming>>
        /\ (last_seq - Len(buf))' = last_seq - Len(buf)
    BY <1>2 DEF Poll, ring, last_seq
  <2>8. QED BY <2>3, <2>5, <2>6, <2>7 DEF Log!Read
<1>3. QED BY <1>1, <1>2 DEF Open, Close, ring, last_seq, Log!Start, Log!Finish

LEMMA StepLog == RingInv /\ [RecorderNext]_recorderVars => [Log!Next]_(Log!vars)
<1> SUFFICES ASSUME RingInv, [RecorderNext]_recorderVars PROVE [Log!Next]_(Log!vars)
  OBVIOUS
<1>1. ASSUME NEW d \in Payloads, Push(d) PROVE Log!Next
  BY <1>1, PushLog DEF Log!Next
<1>2. ASSUME Clear PROVE Log!Next
  <2>1. last_seq' - Len(buf') = Len(hist)
    BY <1>2 DEF Clear, RingInv, RecorderTypes, last_seq
  <2>2. QED BY <1>2, <2>1 DEF Clear, Log!Next, Log!Forget
<1>3. ASSUME NEW r \in Readers, Open(r) \/ Poll(r) \/ Close(r) PROVE Log!Next
  BY <1>3, ReaderLog DEF Log!Next
<1>4. ASSUME UNCHANGED recorderVars PROVE UNCHANGED Log!vars
  BY <1>4 DEF recorderVars, ring, Log!vars, last_seq
<1>5. QED BY <1>1, <1>2, <1>3, <1>4 DEF RecorderNext

\* Every behaviour of the ring is one of the trimmed log: what a stream
\* misses is always a prefix of what it had not read.
THEOREM Implementation == RecorderSpec => ImplementsLog
  BY InitRing, StepRing, InitLog, StepLog, PTL DEF RecorderSpec, ImplementsLog, Log!Spec

\* The ring and its streams, all at once: what the runs check of them holds for
\* every capacity and any set of streams.
THEOREM RingAndStreamsCorrect == RecorderSpec => []RingAndStreams
<1>1. RecorderTypes /\ NewestWithoutHole /\ Accounting /\ NothingLostUnlessOverrun => RingAndStreams
  BY DEF RingAndStreams
<1> QED BY <1>1, TypeCorrect, NewestCorrect, AccountingCorrect, StreamsCorrect, PTL
=============================================================================
