------------------------------ MODULE PageStats ------------------------------
(* The statistics tables and the summary the admin page shows, and the        *)
(* occupancy readout of the recognize pool.                                   *)
(*   packages/scanlation-server/app/cache.py, engine_pool.py, routes/admin.py *)
(* A metric is an integer in 1/10000 of its unit; a statistic is in 1/100 of  *)
(* that, so the quantiles' interpolation is exact.  The mean is left out.     *)
EXTENDS StableLists, SequencesExt

CONSTANTS Combos,       \* engine combinations
          Spans,        \* bound: values of a page's and of a region's metric
          MaxPages,     \* bound: page rows kept at once
          MaxRegions,   \* bound: regions on a page
          Windows,      \* bound: execution windows <<start, end>> of a crop
          MaxWindows    \* bound: crops in the occupancy sink

ASSUME StatsAssumption ==
  /\ Spans \subseteq Nat /\ {MaxPages, MaxRegions, MaxWindows} \subseteq Nat
  /\ Windows \subseteq Nat \X Nat

VARIABLES pageStats,    \* [id, engines, skip, raw_regions, total_ms]
          regionStats,  \* [page, n, recognize_ms], n numbers the rows of a page
          open,         \* ids of the pages inserted since the last commit
          raised,       \* ids of the pages whose record_stats raised
          occ           \* _OCC, the windows of crops recognized since the reset

\* The tables as every caller sees them, through the one connection.
tables == << pageStats, regionStats, open, raised >>
statsVars == << tables, occ >>

StatsInit == pageStats = {} /\ regionStats = {} /\ open = {} /\ raised = {} /\ occ = <<>>

----------------------------------------------------------------------------
(* INTEGER PRIMARY KEY: one above the highest id in use.                      *)
NextId == 1 + Max({p.id : p \in pageStats} \cup {0})

\* The row of a page and the rows of its first crops, up to `done`.
Inserts(regions, done) ==
  /\ Cardinality(pageStats) < MaxPages
  /\ \E engines \in Combos, skip \in BOOLEAN, total \in Spans :
       pageStats' = pageStats \cup
         {[id |-> NextId, engines |-> engines, skip |-> skip,
           raw_regions |-> Len(regions), total_ms |-> total]}
  /\ regionStats' = regionStats \cup
       {[page |-> NextId, n |-> k, recognize_ms |-> regions[k]] : k \in 1 .. done}

RecordStats ==
  /\ \E regions \in BoundedSeq(Spans, MaxRegions) : Inserts(regions, Len(regions))
  /\ open' = {}
  /\ UNCHANGED << raised, occ >>

(* A crop's row or the commit raises: nothing rolls back what was inserted.   *)
RecordFails ==
  /\ \E regions \in BoundedSeq(Spans, MaxRegions) :
       \E done \in 0 .. Len(regions) : Inserts(regions, done)
  /\ open' = open \cup {NextId}
  /\ raised' = raised \cup {NextId}
  /\ UNCHANGED occ

(* put_run and clear commit whatever the connection has open.                 *)
OtherCommits ==
  /\ open # {} /\ open' = {}
  /\ UNCHANGED << pageStats, regionStats, raised, occ >>

(* The process ends: SQLite drops what was not committed, the sink is gone.   *)
Restart ==
  /\ pageStats' = {p \in pageStats : p.id \notin open}
  /\ regionStats' = {r \in regionStats : r.page \notin open}
  /\ open' = {} /\ raised' = raised \ open
  /\ occ' = <<>>

\* A plausible slip: the page rows alone are dropped.
ClearStatsPagesOnly ==
  /\ pageStats # {}
  /\ pageStats' = {} /\ open' = {} /\ raised' = {}
  /\ UNCHANGED << regionStats, occ >>
ClearStats ==
  /\ pageStats # {}
  /\ pageStats' = {} /\ regionStats' = {} /\ open' = {} /\ raised' = {}
  /\ UNCHANGED occ

(* pool.run peels the windows off the results of a page's crops.              *)
SplitOcc ==
  /\ \E windows \in BoundedSeq(Windows, MaxWindows - Len(occ)) :
       windows # <<>> /\ occ' = occ \o windows
  /\ UNCHANGED tables

ResetOccupancy ==
  /\ occ # <<>> /\ occ' = <<>>
  /\ UNCHANGED tables

----------------------------------------------------------------------------
(* stats_summary(engines): a combo, or every page translated.                 *)
Counted(filter) == {p \in pageStats : ~p.skip /\ p.engines \in filter}
CountedRegions(filter) ==
  {r \in regionStats : \E p \in Counted(filter) : p.id = r.page}
\* A plausible slip: benchmark pages are counted in the picker.
PickerEntriesOfAll ==
  {[engines |-> e, pages |-> Cardinality({p \in pageStats : p.engines = e})] :
     e \in {p.engines : p \in pageStats}}
\* The picker's entries, unfiltered: the pages of each combo on record.
PickerEntries ==
  {[engines |-> e, pages |-> Cardinality(Counted({e}))] :
     e \in {p.engines : p \in Counted(Combos)}}

\* A column of metrics, in ascending order.
Column(values) == StableSort(values, LAMBDA a, b : a < b)
Totals(pages) == Column([k \in 1 .. Cardinality(pages) |-> SetToSeq(pages)[k].total_ms])
RegionTimes(regions) ==
  Column([k \in 1 .. Cardinality(regions) |-> SetToSeq(regions)[k].recognize_ms])

(* Decimals giving four significant digits at hi, as the step they leave.     *)
Tens == << 1, 10, 100, 1000, 10000, 100000, 1000000, 10000000 >>
Step(hi) ==
  IF hi = 0 THEN Tens[7]
  ELSE Max({1} \cup {Tens[k] : k \in {j \in 1 .. 7 : Tens[j + 1] <= hi}})

\* round(): to the nearest step, a half to the even one.
Rounded(v, step) ==
  LET k == v \div step
      twice == 2 * (v - step * k)
  IN step * (IF twice > step \/ (twice = step /\ k % 2 = 1) THEN k + 1 ELSE k)

\* A plausible slip: the library's default, method="exclusive".
QuantileExclusive(col, i) ==
  LET m == Len(col) + 1
      j == Max({1, Min({Len(col) - 1, (i * m) \div 100})})
      d == i * m - j * 100
  IN col[j] * (100 - d) + col[j + 1] * d
\* statistics.quantiles(n=100, method="inclusive"), the i-th cut point.
Quantile(col, i) ==
  LET m == Len(col) - 1
      j == (i * m) \div 100
      d == (i * m) % 100
  IN col[j + 1] * (100 - d) + (IF d = 0 THEN 0 ELSE col[j + 2] * d)

Median(col) ==
  LET n == Len(col)
  IN IF n % 2 = 1 THEN 100 * col[n \div 2 + 1] ELSE 50 * (col[n \div 2] + col[n \div 2 + 1])

(* _summarize of one column: the five statistics in ascending order, p90 and  *)
(* p99 only from two rows on.                                                 *)
Summary(col) ==
  LET step == Step(Last(col))
      inner == << Median(col) >> \o
               (IF Len(col) >= 2 THEN << Quantile(col, 90), Quantile(col, 99) >> ELSE <<>>)
  IN [k \in 1 .. Len(inner) + 2 |->
        Rounded(IF k = 1 THEN 100 * Head(col)
                ELSE IF k = Len(inner) + 2 THEN 100 * Last(col) ELSE inner[k - 1], step)]

----------------------------------------------------------------------------
(* occupancy_stats: a sweep over the starts and ends of the windows.          *)
Intervals == Where(occ, LAMBDA w : w[2] > w[1])
Events ==
  LET n == Len(Intervals)
  IN StableSort([k \in 1 .. 2 * n |-> IF k <= n THEN << Intervals[k][1], 1 >>
                                      ELSE << Intervals[k - n][2], -1 >>],
                LAMBDA a, b : a[1] < b[1] \/ (a[1] = b[1] /\ a[2] < b[2]))

\* A plausible slip: a count seen before loses the time it had.
TallyAnew(h, count, ticks) == [h EXCEPT ![count] = ticks]
Tally(h, count, ticks) == [h EXCEPT ![count] = @ + ticks]

\* The tallies, the count and the time after each event.
Swept(events, n) ==
  LET swept[k \in 0 .. Len(events)] ==
        IF k = 0
          THEN [hist |-> [c \in 0 .. n |-> 0], cur |-> 0, prev |-> events[1][1]]
          ELSE [hist |-> Tally(swept[k - 1].hist, swept[k - 1].cur,
                               events[k][1] - swept[k - 1].prev),
                cur |-> swept[k - 1].cur + events[k][2],
                prev |-> events[k][1]]
  IN swept
Histogram == LET events == Events IN Swept(events, Len(Intervals))[Len(events)].hist

StatsNext == \/ RecordStats \/ RecordFails \/ OtherCommits \/ Restart \/ ClearStats
             \/ SplitOcc \/ ResetOccupancy
StatsSpec == StatsInit /\ [][StatsNext]_statsVars

----------------------------------------------------------------------------
(* The two tables agree: ids are unique, a crop's row has a page, and a page  *)
(* has as many crops' rows as its raw_regions column says, or fewer when its  *)
(* record_stats raised; across commits of others, a clear, a restart and the  *)
(* reuse of ids.                                                              *)
CropRows(p) == {r \in regionStats : r.page = p.id}
TablesAgree ==
  /\ \A p, q \in pageStats : p.id = q.id => p = q
  /\ \A r \in regionStats : \E p \in pageStats : p.id = r.page
  /\ \A p \in pageStats :
       IF p.id \in raised THEN Cardinality(CropRows(p)) <= p.raw_regions
                          ELSE Cardinality(CropRows(p)) = p.raw_regions

(* "min <= p90 <= max holds after rounding exactly as it did before"          *)
(* (cache.py:60): each summary's statistics ascend, for every filter.         *)
Ascends(s) == \A k \in 1 .. Len(s) - 1 : s[k] <= s[k + 1]
SummariesAscend ==
  \A filter \in {{e} : e \in Combos} \cup {Combos} :
    /\ LET table == Counted(filter)
       IN table # {} => Ascends(Summary(Totals(table)))
    /\ LET table == CountedRegions(filter)
       IN table # {} => Ascends(Summary(RegionTimes(table)))

(* The picker lists each combo with translated pages, and choosing one shows  *)
(* as many pages as the picker said: together, all of them.                   *)
PickerAddsUp ==
  /\ MapThenSumSet(LAMBDA e : e.pages, PickerEntries) = Cardinality(Counted(Combos))
  /\ \A e \in PickerEntries : e.pages > 0

(* The histogram is the time during which exactly so many crops ran, so it    *)
(* adds up to the wall time of the batch.                                     *)
OccupancyIsTime ==
  Intervals # <<>> =>
    LET events == Events
        histogram == Histogram
        Busy(t) == {k \in DOMAIN Intervals : Intervals[k][1] <= t /\ t < Intervals[k][2]}
        ticks == events[1][1] .. Last(events)[1] - 1
    IN \A c \in DOMAIN histogram :
         histogram[c] = Cardinality({t \in ticks : Cardinality(Busy(t)) = c})

(* What the admin page reports is what was measured: the tables agree, their  *)
(* summaries ascend, the picker counts the pages it shows and the occupancy   *)
(* readout is the time spent.                                                 *)
StatsAddUp == TablesAgree /\ SummariesAscend /\ PickerAddsUp /\ OccupancyIsTime
=============================================================================
