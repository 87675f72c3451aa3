----------------------------- MODULE StatsSpec ------------------------------
(***************************************************************************)
(* What the tables promise, over all short recordings of two probes, and   *)
(* what a calendar is.                                                     *)
(***************************************************************************)
EXTENDS Stats

\* As many calls lie at or below a quantile, and at most as many below it, as
\* the nearest rank allows; exactness to half a rank is what rounding leaves.
QuantileIsNearest(durs, x, percent) ==
  LET n == Len(durs)
      below == Len(SelectSeq(durs, LAMBDA d : d < x))
      upTo == Len(SelectSeq(durs, LAMBDA d : d <= x))
  IN  /\ 200 * below <= 2 * (n - 1) * percent + 100
      /\ 200 * upTo >= 2 * (n - 1) * percent + 100

-----------------------------------------------------------------------------
LeapYear(y) == y % 4 = 0 /\ (y % 100 # 0 \/ y % 400 = 0)
DaysIn(y, m) == CASE m = 2 -> IF LeapYear(y) THEN 29 ELSE 28
                  [] m \in {4, 6, 9, 11} -> 30
                  [] OTHER -> 31

NextDay(d) ==
  CASE d.day < DaysIn(d.year, d.month) -> [d EXCEPT !.day = @ + 1]
    [] d.day = DaysIn(d.year, d.month) /\ d.month < 12 ->
         [d EXCEPT !.day = 1, !.month = @ + 1]
    [] OTHER -> [year |-> d.year + 1, month |-> 1, day |-> 1]
=============================================================================
