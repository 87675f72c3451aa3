------------------------------- MODULE Folded -------------------------------
(***************************************************************************)
(* The reports of `profiler`, made of stacks: rthas/src/profiler.rs.       *)
(*                                                                         *)
(* A frame is its name, a sequence of characters: "#" at its end stands    *)
(* for the hash rustc appends, "P" for a segment of the profiler's own or  *)
(* of pprof's, "R" for one of the runtime (tokio, std, pthread).  Folded   *)
(* stacks are a set of [stack, n]; the order of a tree's rows, by n and    *)
(* then by name, is left out, and so is the layout of the text.            *)
(***************************************************************************)
EXTENDS Glob

trim_rustc_hash(name) == IF name # <<>> /\ Last(name) = "#" THEN Front(name) ELSE name

skip_frame(name) == name = <<>> \/ "P" \in ToSet(name)
is_runtime_frame(name) == "R" \in ToSet(name)

\* Leaf first as captured, root first as shown, without the frames of the
\* capture itself (symbolise_wall).
Symbolised(ips) ==
  Reverse(SelectSeq([i \in 1..Len(ips) |-> trim_rustc_hash(ips[i])], LAMBDA f : ~skip_frame(f)))

\* frames_to_stack does the same to what pprof has.
frames_to_stack(frames) == Symbolised(frames)

Total(stacks) == FoldSet(LAMBDA e, sum : sum + e.n, 0, stacks)

\* wall_snapshot: the samples by their stacks; samples is a sequence of stacks
\* as captured, empty where a slot was never filled.
Fold(shown) ==
  {[stack |-> s, n |-> Cardinality({i \in DOMAIN shown : shown[i] = s})] : s \in ToSet(shown) \ {<<>>}}

from_wall(samples) ==
  [event |-> "wall", report |-> FALSE,
   raw |-> Cardinality({i \in DOMAIN samples : samples[i] # <<>>}),
   stacks |-> Fold([i \in DOMAIN samples |-> Symbolised(samples[i])])]

\* The pprof report is folded already, by the stacks as captured: report is a
\* sequence of [ips, n].  Two of its stacks may look alike afterwards.
from_report(report) ==
  [event |-> "cpu", report |-> TRUE,
   raw |-> FoldLeft(LAMBDA sum, e : sum + e.n, 0, report),
   stacks |-> {[stack |-> frames_to_stack(report[i].ips), n |-> report[i].n, of |-> i] :
                 i \in {j \in DOMAIN report : frames_to_stack(report[j].ips) # <<>>}}]

\* Lists of patterns; empty ones are left out (split_patterns).
Hits(patterns, stack) ==
  \E p \in patterns \ {<<>>} : \E i \in DOMAIN stack : GlobMatch(p, stack[i])

Kept(include, exclude, stack) ==
  /\ include \subseteq {<<>>} \/ Hits(include, stack)
  /\ exclude \subseteq {<<>>} \/ ~Hits(exclude, stack)

filter_stacks(stacks, include, exclude) == {e \in stacks : Kept(include, exclude, e.stack)}

\* Filtering gives up the report, so that the flame graph is drawn from what is
\* left.
filter_snapshot(snap, include, exclude) ==
  IF include = {} /\ exclude = {} THEN snap
  ELSE [snap EXCEPT !.stacks = filter_stacks(@, include, exclude), !.report = FALSE]

\* compact_stacks: without the runtime's frames, and without the stacks that
\* had no others.  Two stacks may become alike and stay two.
Compacted(e) == [stack |-> SelectSeq(e.stack, LAMBDA f : ~is_runtime_frame(f)), n |-> e.n, of |-> e]
compact_stacks(stacks) == {e \in {Compacted(f) : f \in stacks} : e.stack # <<>>}

-----------------------------------------------------------------------------
(* The tree: a node is the path that leads to it.                           *)

Nodes(stacks) == UNION {{SubSeq(e.stack, 1, k) : k \in 0..Len(e.stack)} : e \in stacks} \cup {<<>>}

\* Node::add counts a stack at every node on its way.
Count(stacks, path) == Total({e \in stacks : IsPrefix(path, e.stack)})

Children(stacks, path) == {q \in Nodes(stacks) : Len(q) = Len(path) + 1 /\ IsPrefix(path, q)}

self_count(stacks, path) ==
  Count(stacks, path) - Total({[path |-> q, n |-> Count(stacks, q)] : q \in Children(stacks, path)})

\* The rows of print_tree, down to a depth.
print_tree(stacks, depth) ==
  {[path |-> q, n |-> Count(stacks, q)] : q \in {p \in Nodes(stacks) : Len(p) \in 1..(depth + 1)}}

\* collect_self: by node, not by function.
collect_self(stacks) ==
  {[path |-> q, n |-> self_count(stacks, q)] :
     q \in {p \in Nodes(stacks) \ {<<>>} : self_count(stacks, p) > 0}}

\* Of two functions with the same count the name decides.
Alphabet == <<"#", "*", "P", "R", "a", "b">>
NameBefore(s, t) ==
  \/ IsStrictPrefix(s, t)
  \/ \E i \in DOMAIN s \cap DOMAIN t :
       /\ SubSeq(s, 1, i - 1) = SubSeq(t, 1, i - 1)
       /\ \E j, k \in DOMAIN Alphabet : j < k /\ Alphabet[j] = s[i] /\ Alphabet[k] = t[i]
HotterByName(e, f) == NameBefore(Last(e.path), Last(f.path))
Hotter(e, f) == e.n > f.n \/ (e.n = f.n /\ NameBefore(Last(e.path), Last(f.path)))

\* The rows of `top by self`: the first top_n, one at least.
Hottest(own, top_n) ==
  LET wanted == IF top_n = 0 THEN 1 ELSE top_n
      Place(k) == CHOOSE e \in own : /\ Cardinality({f \in own : Hotter(f, e)}) < k
                                     /\ k <= Cardinality({f \in own : ~Hotter(e, f)})
      Row(e) == [n |-> e.n, name |-> Last(e.path)]
  IN  [k \in 1..(IF Cardinality(own) < wanted THEN Cardinality(own) ELSE wanted) |-> Row(Place(k))]

\* Shares are of the total before compacting.
render_text(snap, depth, top_n, compact) ==
  LET stacks == IF compact THEN compact_stacks(snap.stacks) ELSE snap.stacks
  IN  [total |-> Total(snap.stacks), stacks |-> stacks,
       rows |-> IF snap.stacks = {} THEN {} ELSE print_tree(stacks, depth),
       hot |-> IF snap.stacks = {} THEN <<>> ELSE Hottest(collect_self(stacks), top_n)]

\* One line for each stack.
render_collapsed(snap) == {e \in snap.stacks : e.stack # <<>>}
flamegraph(snap) == IF snap.report THEN [from |-> "report", lines |-> {}]
                    ELSE [from |-> "stacks", lines |-> render_collapsed(snap)]
=============================================================================
