------------------------------- MODULE Forest -------------------------------
(***************************************************************************)
(* The forest of rthas/src/tree.rs, which rebuilds call trees from spans   *)
(* that are emitted on completion, children usually before their parent.   *)
(*                                                                         *)
(* A span in the forest is in one of three places: parked until its parent *)
(* arrives, listed among its parent's children, or released as a root that *)
(* nobody has taken yet.  The code's queue of released roots is a set      *)
(* here: every caller empties it, so its order decides only the order of   *)
(* the output.  Spans age in any order; in the code the oldest age first.  *)
(*                                                                         *)
(* added, expired, late and trees are history variables: the spans ever    *)
(* given to `add`, those the grace window released, those that came after  *)
(* their parent had been taken, and the trees handed out.                  *)
(***************************************************************************)
EXTENDS Naturals

CONSTANT Spans   \* span ids

ASSUME SpansAssumption == Spans \subseteq Nat \ {0}

VARIABLES
  parent,   \* what each span's event says of its parent; never changes
  nodes,    \* the spans in the `nodes` map
  adopted,  \* those in the `children` of their parent's node
  waiting,  \* those parked under a parent that has not arrived
  aged,     \* the parked ones that have outlived the grace window
  ready,    \* the roots released and not taken
  added, expired, late, trees

forestVars ==
  <<parent, nodes, adopted, waiting, aged, ready, added, expired, late, trees>>

Taken == UNION {trees[r] : r \in Spans}

\* A parent is always entered before its child, so an id that is not smaller
\* cannot be an ancestor's.
IsRootUnknown(s) == parent[s] \notin nodes
IsRootZero(s) == parent[s] = 0
IsRoot(s) == parent[s] = 0 \/ parent[s] >= s

\* What `take(r)` removes: r and, recursively, the children of its node.
IsClosed(S) == \A c \in adopted : parent[c] \in S => c \in S

Subtree(r) ==
  {s \in nodes : \A S \in SUBSET (nodes \union {r}) : r \in S /\ IsClosed(S) => s \in S}

-----------------------------------------------------------------------------

ForestInit ==
  /\ parent \in [Spans -> Spans \union {0}]
  /\ nodes = {}
  /\ adopted = {}
  /\ waiting = {}
  /\ aged = {}
  /\ ready = {}
  /\ added = {}
  /\ expired = {}
  /\ late = {}
  /\ trees = [r \in Spans |-> {}]

If(cond, S) == IF cond THEN S ELSE {}

\* `promote_expired`, called by every `add` and by nothing else.
StillWaiting == waiting \ aged

\* The expired spans, and the new one when it is a root, are released.
ReleasedByParent(s) == aged \union If(IsRoot(s), {parent[s]})
ReleasedBy(s) == (aged \intersect nodes) \union If(IsRoot(s), {s})

\* `ingest` releases a root, hands a span to a parent that is there, and
\* parks it otherwise.
JoinsParent(s) == ~IsRoot(s) /\ parent[s] \in nodes
Parks(s) == ~IsRoot(s) /\ parent[s] \notin nodes

\* `adopt`: those that waited for s, unless they have just expired.
AdoptedByNone(s) == {}
AdoptedByExpired(s) == {w \in waiting : parent[w] = s}
AdoptedBy(s) == {w \in StillWaiting : parent[w] = s}

\* Forest::add.
Add(s) ==
  /\ nodes' = nodes \union {s}
  /\ ready' = ready \union ReleasedBy(s)
  /\ adopted' = adopted \union AdoptedBy(s) \union If(JoinsParent(s), {s})
  /\ waiting' = (StillWaiting \ AdoptedBy(s)) \union If(Parks(s), {s})
  /\ aged' = {}
  /\ added' = added \union {s}
  /\ expired' = expired \union aged
  /\ late' = late \union If(parent[s] \in Taken, {s})
  /\ UNCHANGED <<parent, trees>>

\* The grace window of a parked span passes.
Age(s) ==
  /\ s \in waiting \ aged
  /\ aged' = aged \union {s}
  /\ UNCHANGED <<parent, nodes, adopted, waiting, ready, added, expired, late, trees>>

\* Forest::take_ready and Forest::take of what it returned.
Take(r) ==
  /\ r \in ready
  /\ nodes' = nodes \ Subtree(r)
  /\ adopted' = adopted \ Subtree(r)
  /\ ready' = ready \ (Subtree(r) \union {r})
  /\ trees' = [trees EXCEPT ![r] = Subtree(r)]
  /\ UNCHANGED <<parent, waiting, aged, added, expired, late>>

\* Forest::drain_roots: whatever still waits becomes a root, then every root
\* is taken.
LastRootsReady == ready
LastRoots == ready \union (waiting \intersect nodes)

Drain ==
  LET gone == UNION {Subtree(r) : r \in LastRoots} IN
  /\ nodes' = nodes \ gone
  /\ adopted' = adopted \ gone
  /\ ready' = {}
  /\ waiting' = {}
  /\ aged' = {}
  /\ trees' = [r \in Spans |-> IF r \in LastRoots THEN Subtree(r) ELSE trees[r]]
  /\ UNCHANGED <<parent, added, expired, late>>

ForestNext ==
  \/ \E s \in Spans \ added : Add(s)
  \/ \E s \in Spans : Age(s) \/ Take(s)
  \/ Drain

ForestSpec == ForestInit /\ [][ForestNext]_forestVars

-----------------------------------------------------------------------------

ForestTypeOK ==
  /\ parent \in [Spans -> Spans \union {0}]
  /\ nodes \subseteq Spans
  /\ adopted \subseteq Spans
  /\ waiting \subseteq Spans
  /\ aged \subseteq waiting
  /\ ready \subseteq Spans
  /\ added \subseteq Spans
  /\ expired \subseteq Spans
  /\ late \subseteq Spans
  /\ trees \in [Spans -> SUBSET Spans]

\* No span is lost or shown twice, whatever order events arrive in and
\* whenever the grace window closes: what was added is either still in the
\* forest, in exactly one of its three places, or in exactly one of the trees
\* handed out.
Conservation ==
  /\ added = nodes \union Taken
  /\ nodes \intersect Taken = {}
  /\ \A r, q \in Spans : r # q => trees[r] \intersect trees[q] = {}
  /\ nodes = adopted \union waiting \union ready
  /\ adopted \intersect (waiting \union ready) = {}
  /\ waiting \intersect ready = {}

\* A span is parked only while its parent is missing, and a child hangs only
\* from a node that is there: the adoption in `ingest` and in `adopt` and the
\* recursion in `take` never leave an orphan behind an existing parent.
ParentsInPlace ==
  /\ \A s \in waiting : parent[s] \notin nodes /\ ~IsRoot(s)
  /\ \A s \in adopted : parent[s] \in nodes /\ ~IsRoot(s)
=============================================================================
