------------------------------- MODULE Render -------------------------------
(***************************************************************************)
(* How a call tree is drawn: the end of rthas/src/tree.rs, and the plainer *)
(* drawing of rthas-ebpf/src/tree.rs.                                      *)
(*                                                                         *)
(* A tree is the sequence of its nodes' parents: node 1 is the root, a     *)
(* parent stands before its children, siblings are in their order.  What a *)
(* row says of its call is left out; how it hangs on the rows above is     *)
(* what is drawn here: bars has, for each level between the root and the   *)
(* row, whether a bar is drawn there.                                      *)
(***************************************************************************)
EXTENDS Naturals, Sequences, SequencesExt, FiniteSetsExt

CONSTANT MAX_DEPTH

ChildrenOf(tree, k) == SelectSeq([i \in 1..Len(tree) |-> i], LAMBDA i : i > 1 /\ tree[i] = k)

ChildBarsAlways(bars, last) == Append(bars, TRUE)
ChildBars(bars, last) == Append(bars, ~last)

Deeper(level, depth) == level > MAX_DEPTH \/ (depth > 0 /\ level >= depth)

\* The rows of a call and, one after the other, of its children.
render_child(tree, depth) ==
  LET rows[k \in 1..Len(tree), bars \in Seq(BOOLEAN), last \in BOOLEAN, level \in Nat] ==
        IF Deeper(level, depth) THEN <<>>
        ELSE LET kids == ChildrenOf(tree, k)
             IN  <<[id |-> k, level |-> level, bars |-> bars, last |-> last]>>
                 \o FlattenSeq([i \in 1..Len(kids) |->
                                  rows[kids[i], ChildBars(bars, last), i = Len(kids), level + 1]])
  IN  rows

\* render: the root has no branch of its own and its children none above.
render(tree, depth) ==
  LET kids == ChildrenOf(tree, 1)
      rows == render_child(tree, depth)
  IN  <<[id |-> 1, level |-> 0, bars |-> <<>>, last |-> TRUE]>>
      \o FlattenSeq([i \in 1..Len(kids) |-> rows[kids[i], <<>>, i = Len(kids), 1]])

\* render_stacks: the native stack of every node the pattern marks, those below
\* the depth included.
render_stacks(tree, root, marked) ==
  LET stacks[k \in 1..Len(tree)] ==
        LET kids == ChildrenOf(tree, k)
        IN  (IF k \in marked THEN <<k>> ELSE <<>>)
            \o FlattenSeq([i \in 1..Len(kids) |-> stacks[kids[i]]])
  IN  stacks[root]

\* tree_contains: `stack` shows only trees in which something is marked.
tree_contains(tree, root, marked) ==
  LET has[k \in 1..Len(tree)] == k \in marked \/ \E i \in ToSet(ChildrenOf(tree, k)) : has[i]
  IN  has[root]

\* The helper draws levels only, from the level it is given.
render_into(tree, root, from, depth) ==
  LET rows[k \in 1..Len(tree), level \in Nat] ==
        IF depth > 0 /\ level >= depth THEN <<>>
        ELSE LET kids == ChildrenOf(tree, k)
             IN  <<[id |-> k, level |-> level]>>
                 \o FlattenSeq([i \in 1..Len(kids) |-> rows[kids[i], level + 1]])
  IN  rows[root, from]

-----------------------------------------------------------------------------
(* A native stack as text.  A line is [kind, of]: "frame" with the name it  *)
(* stands for, "at" with a place, or "note".                                *)

\* split_frames: a place belongs to the frame above it, the first one only.
split_frames(lines) ==
  FoldLeft(LAMBDA out, l :
             CASE l.kind = "note"  -> out
               [] l.kind = "frame" -> Append(out, [symbol |-> l.of, location |-> ""])
               [] l.kind = "at"    ->
                    IF out = <<>> \/ Last(out).location # "" THEN out
                    ELSE [out EXCEPT ![Len(out)].location = l.of],
           <<>>, lines)

\* parse_frames: nothing up to the last frame of rthas itself.
parse_frames(lines) ==
  LET frames == split_frames(lines)
      own == {i \in 1..Len(frames) : frames[i].symbol = "rthas"}
  IN  SubSeq(frames, Max({0} \cup own) + 1, Len(frames))
=============================================================================
