-------------------------------- MODULE Glob --------------------------------
(***************************************************************************)
(* The pattern matching of every `pattern` argument: glob_match of         *)
(* rthas/src/probe.rs and its copy in rthas-ebpf/src/glob.rs.  A path is a *)
(* sequence of characters; positions count from 1 and Len(s) + 1 is the    *)
(* end.                                                                    *)
(***************************************************************************)
EXTENDS Naturals, Sequences, SequencesExt, FiniteSetsExt

At(t, s, i) == i + Len(t) - 1 <= Len(s) /\ SubSeq(s, i, i + Len(t) - 1) = t

Occurrences(t, s) == {i \in 1..(Len(s) + 1) : At(t, s, i)}

\* str::match_indices: from left to right, occurrences that do not overlap.
match_indices(t, s) ==
  FoldLeft(LAMBDA found, i : IF At(t, s, i) /\ \A j \in found : i >= j + Len(t)
                             THEN found \cup {i} ELSE found,
           {}, [i \in 1..Len(s) |-> i])

\* The literals between the stars.
Parts(p) ==
  FoldLeft(LAMBDA parts, c : IF c = "*" THEN Append(parts, <<>>)
                             ELSE Append(Front(parts), Append(Last(parts), c)),
           << <<>> >>, p)

StartsAnchored(first, s) == IF At(first, s, 1) THEN {1} ELSE {}
Starts(first, s) == IF first = <<>> THEN {1} ELSE match_indices(first, s)

\* Where the rest begins once each literal is consumed at its leftmost
\* occurrence; 0 when one of them does not occur.
Consume(literals, s, from) ==
  FoldLeft(LAMBDA pos, m :
             LET ahead == {i \in Occurrences(m, s) : i >= pos}
             IN  IF pos = 0 \/ m = <<>> THEN pos
                 ELSE IF ahead = {} THEN 0 ELSE Min(ahead) + Len(m),
           from, literals)

EndsWith(t, s, from) == from + Len(t) <= Len(s) + 1 /\ At(t, s, Len(s) + 1 - Len(t))

GlobMatch(p, s) ==
  LET parts == Parts(p)
      From(i) == Consume(SubSeq(parts, 2, Len(parts) - 1), s, i + Len(parts[1]))
  IN  IF Len(parts) = 1 THEN Occurrences(p, s) # {}
      ELSE \E i \in Starts(parts[1], s) :
             From(i) # 0 /\ EndsWith(Last(parts), s, From(i))

\* The copy of the helper.
EbpfGlobMatch(p, s) == GlobMatch(p, s)

-----------------------------------------------------------------------------
\* A star is any run of characters: the places of s from which the rest of p,
\* from its i-th character on, matches all that is left.
Matches(p, s) ==
  LET from[i \in 1..(Len(p) + 1)] ==
        IF i > Len(p) THEN {Len(s) + 1}
        ELSE IF p[i] = "*" THEN {j \in 1..(Len(s) + 1) : \E k \in from[i + 1] : j <= k}
        ELSE {j \in 1..Len(s) : p[i] = s[j] /\ j + 1 \in from[i + 1]}
  IN  1 \in from[1]

\* What the doc of glob_match promises: a pattern with a star may begin anywhere
\* but must end where the path ends, one without is a substring.
GlobPromise(p, s) ==
  IF "*" \in ToSet(p) THEN Matches(<<"*">> \o p, s) ELSE Matches(<<"*">> \o p \o <<"*">>, s)
=============================================================================
