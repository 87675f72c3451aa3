------------------------------- MODULE Stats --------------------------------
(***************************************************************************)
(* The tables of `stats`, `top`, `monitor` and `dashboard`: the aggregates *)
(* of rthas/src/agent.rs over recorded events, of rthas-ebpf/src/stats.rs  *)
(* over samples, and the date both print.                                  *)
(*                                                                         *)
(* An event is [probe, ok, dur]; a sample is one with ok = TRUE.  Probes   *)
(* are numbered in the order of their paths.                               *)
(***************************************************************************)
EXTENDS Integers, Sequences, SequencesExt, FiniteSetsExt

Sum(s) == FoldLeft(LAMBDA a, n : a + n, 0, s)

\* The events of one probe as one row.
Agg(events, p) ==
  LET mine == SelectSeq(events, LAMBDA e : e.probe = p)
      durs == SortSeq([i \in 1..Len(mine) |-> mine[i].dur], <)
  IN  [id |-> p, count |-> Len(mine), errs |-> Len(SelectSeq(mine, LAMBDA e : ~e.ok)),
       total |-> Sum(durs), max |-> Last(durs), durs |-> durs]

\* aggregate_events: one row for each probe that matches, in path order.
AggregateEvents(events, wanted) ==
  LET ids == SetToSortSeq({events[i].probe : i \in 1..Len(events)} \cap wanted, <)
  IN  [k \in 1..Len(ids) |-> Agg(events, ids[k])]

\* The helper's aggregate has no pattern and no errors.
AggregateSamples(samples) ==
  AggregateEvents(samples, {samples[i].probe : i \in 1..Len(samples)})

\* quantile(sorted, percent / 100); the product is rounded, half upwards.
RankFromLength(n, percent) == (2 * n * percent + 100) \div 200
Rank(n, percent) == (2 * (n - 1) * percent + 100) \div 200
Quantile(sorted, percent) ==
  LET rank == Rank(Len(sorted), percent)
  IN  IF sorted = <<>> THEN 0
      ELSE sorted[1 + (IF rank < Len(sorted) - 1 THEN rank ELSE Len(sorted) - 1)]

StatsRow(a) ==
  [id |-> a.id, count |-> a.count, errs |-> a.errs, p50 |-> Quantile(a.durs, 50),
   p95 |-> Quantile(a.durs, 95), p99 |-> Quantile(a.durs, 99), max |-> a.max, total |-> a.total]

Rows(aggs) == [k \in 1..Len(aggs) |-> StatsRow(aggs[k])]
render_stats(samples) == Rows(AggregateSamples(samples))

\* A stable sort, the largest key first.
ByKey(rows, by) ==
  LET Key(r) == CASE by = "max" -> r.max [] by = "count" -> r.count [] OTHER -> r.total
      order == SetToSortSeq(1..Len(rows),
                 LAMBDA i, j : \/ Key(rows[i]) > Key(rows[j])
                               \/ Key(rows[i]) = Key(rows[j]) /\ i < j)
  IN  [k \in 1..Len(rows) |-> rows[order[k]]]

Truncated(rows, n) == SubSeq(rows, 1, IF n < Len(rows) THEN n ELSE Len(rows))

TopRow(a) == [id |-> a.id, count |-> a.count, errs |-> a.errs, total |-> a.total,
              max |-> a.max, avg |-> a.total \div a.count]
TopRows(rows) == [k \in 1..Len(rows) |-> TopRow(rows[k])]

cmd_top(events, wanted, n, by) ==
  TopRows(Truncated(ByKey(AggregateEvents(events, wanted), by), n))

\* The helper shows at least one row.
render_top(samples, n, by) ==
  TopRows(Truncated(ByKey(AggregateSamples(samples), by), IF n = 0 THEN 1 ELSE n))

\* The rows of a dashboard frame, the heaviest in total first.
DashboardRows(events, all, hottest) ==
  Rows(Truncated(ByKey(AggregateEvents(events, all), "total"), hottest))

MonitorRow(a) ==
  [id |-> a.id, total |-> a.count, success |-> a.count - a.errs, fail |-> a.errs,
   avg |-> a.total \div a.count]
MonitorRows(aggs) ==
  LET rows == ByKey(aggs, "total") IN [k \in 1..Len(rows) |-> MonitorRow(rows[k])]

AgentMonitor(events, all) == MonitorRows(AggregateEvents(events, all))
render_monitor(samples) == MonitorRows(AggregateSamples(samples))

-----------------------------------------------------------------------------
(* Dates.  Division rounds towards zero in the code; nothing is negative    *)
(* here from the year 0 on.                                                 *)

\* The day of the year, which begins in March.
DoyWithoutCenturies(doe, yoe) == doe - (365 * yoe + yoe \div 4)
Doy(doe, yoe) == doe - (365 * yoe + yoe \div 4 - yoe \div 100)

CivilFromDays(z) ==
  LET n == z + 719468
      era == n \div 146097
      doe == n - era * 146097
      yoe == (doe - doe \div 1460 + doe \div 36524 - doe \div 146096) \div 365
      doy == Doy(doe, yoe)
      mp == (5 * doy + 2) \div 153
      month == IF mp < 10 THEN mp + 3 ELSE mp - 9
  IN  [year |-> yoe + era * 400 + (IF month <= 2 THEN 1 ELSE 0), month |-> month,
       day |-> doy - (153 * mp + 2) \div 5 + 1]

\* The copy of the helper.
EbpfCivilFromDays(z) == CivilFromDays(z)

\* format_datetime: the seconds since the epoch, shifted by the configured zone.
FormatDatetime(secs, zone) ==
  LET local == secs + zone
      rest == local % 86400
  IN  [date |-> CivilFromDays(local \div 86400), hour |-> rest \div 3600,
       minute |-> (rest % 3600) \div 60, second |-> rest % 60]

\* The helper prints UTC.
FormatUtc(secs) == FormatDatetime(secs, 0)
=============================================================================
