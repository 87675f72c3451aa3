------------------------------- MODULE Codec --------------------------------
(***************************************************************************)
(* rthas/src/base64.rs, behind `base64` and `base64 -d`.  A digit of the   *)
(* alphabet is its value in 0..63, Pad stands for `=`.                     *)
(***************************************************************************)
EXTENDS Integers, Sequences, SequencesExt

Pad == 255

\* Up to three bytes at a time; what is missing counts as zero and is padded.
GroupsOf(s, n) == [k \in 1..((Len(s) + n - 1) \div n) |->
                     SubSeq(s, n * (k - 1) + 1, IF n * k < Len(s) THEN n * k ELSE Len(s))]

EncodeGroup(g) ==
  LET b(i) == IF i <= Len(g) THEN g[i] ELSE 0
      q == <<b(1) \div 4, (b(1) % 4) * 16 + b(2) \div 16,
             (b(2) % 16) * 4 + b(3) \div 64, b(3) % 64>>
  IN  [i \in 1..4 |-> IF i <= Len(g) + 1 THEN q[i] ELSE Pad]

Encode(data) == FlattenSeq([k \in 1..Len(GroupsOf(data, 3)) |-> EncodeGroup(GroupsOf(data, 3)[k])])

DecodeQuadFull(q) ==
  SubSeq(<<(q[1] * 4 + q[2] \div 16) % 256, (q[2] * 16 + q[3] \div 4) % 256,
           (q[3] * 64 + q[4]) % 256>>, 1, 3)

\* flush_quad: padding is counted wherever it stands and is a zero digit; the
\* shifts drop what does not fit in a byte.
DecodeQuad(q) ==
  LET pads == Cardinality({i \in 1..4 : q[i] = Pad})
      v(i) == IF q[i] = Pad THEN 0 ELSE q[i]
  IN  SubSeq(<<(v(1) * 4 + v(2) \div 16) % 256, (v(2) * 16 + v(3) \div 4) % 256,
               (v(3) * 64 + v(4)) % 256>>, 1, IF pads >= 2 THEN 1 ELSE 3 - pads)

\* Digits outside the alphabet, or not in fours, are refused.
Decode(digits) ==
  IF Len(digits) % 4 # 0 \/ \E i \in 1..Len(digits) : digits[i] \notin (0..63) \cup {Pad}
  THEN [ok |-> FALSE, data |-> <<>>]
  ELSE [ok |-> TRUE, data |-> FlattenSeq([k \in 1..(Len(digits) \div 4) |->
                                            DecodeQuad(GroupsOf(digits, 4)[k])])]
=============================================================================
