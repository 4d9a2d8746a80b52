---------------------------- MODULE MetricsChart ----------------------------
(***************************************************************************)
(* What is in the dashboard's metrics and how the page draws them.         *)
(* Dashboard says when metrics are computed, cached and shown; here one    *)
(* request after the other computes the trend of the last days, while      *)
(* quotes come and go and midnight passes, and the page draws it under a   *)
(* pointer that moves.                                                     *)
(*                                                                         *)
(* Lengths are the page's pixels.  Where the code divides by the largest   *)
(* value of a chart, lengths are kept as multiples of one over that value. *)
(***************************************************************************)
EXTENDS Integers, Sequences, FiniteSetsExt

CONSTANTS
  TrendDays,  \* TREND_DAYS, 7 in the code
  MaxDay,     \* bound: the last day
  MaxPerDay,  \* bound: quotes of one day
  Pointers    \* horizontal positions the pointer may be at

ASSUME ChartAssumption ==
  /\ TrendDays \in Nat \ {0} /\ MaxDay \in Nat /\ MaxPerDay \in Nat
  /\ MaxDay >= TrendDays /\ Pointers \subseteq Nat

VARIABLES
  today,      \* the UTC day
  quotes,     \* quotes that are not removed, by day of creation
  start,      \* trendStart of the request being computed, 0 for none
  recent,     \* recentQuotes by day, once read
  trend,      \* freightQuotesLast7Days, as the page shows it
  taken,      \* history: the quotes by day when recentQuotes was read
  told,       \* history: `taken` of what the page shows
  pointer,    \* where the pointer is over the trend
  hoverIndex  \* the column it chose, 0 for null

chartVars == <<today, quotes, start, recent, trend, taken, told, pointer, hoverIndex>>

Days == 1..MaxDay
Unread == << >>
Away == -1

ChartInit ==
  /\ today = TrendDays
  /\ quotes = [d \in Days |-> 0]
  /\ start = 0 /\ recent = Unread /\ taken = Unread
  /\ trend = Unread /\ told = Unread
  /\ pointer = Away /\ hoverIndex = 0
-----------------------------------------------------------------------------
(* Quotes *)

QuoteCreated ==
  /\ quotes[today] < MaxPerDay
  /\ quotes' = [quotes EXCEPT ![today] = @ + 1]
  /\ UNCHANGED <<today, start, recent, trend, taken, told, pointer, hoverIndex>>

QuoteRemoved(d) ==
  /\ quotes[d] > 0
  /\ quotes' = [quotes EXCEPT ![d] = @ - 1]
  /\ UNCHANGED <<today, start, recent, trend, taken, told, pointer, hoverIndex>>

Midnight ==
  /\ today < MaxDay
  /\ today' = today + 1
  /\ UNCHANGED <<quotes, start, recent, trend, taken, told, pointer, hoverIndex>>
-----------------------------------------------------------------------------
(* computeMetrics *)

\* Mutant: the trend is asked for from a day too late.
FirstDayTooLate(d) == d - TrendDays + 2

FirstDay(d) == d - TrendDays + 1

StartsMetrics ==
  /\ start = 0
  /\ start' = FirstDay(today)
  /\ UNCHANGED <<today, quotes, recent, trend, taken, told, pointer, hoverIndex>>

ReadsRecent ==
  /\ start # 0 /\ recent = Unread
  /\ recent' = [d \in Days |-> IF d >= start THEN quotes[d] ELSE 0]
  /\ taken' = quotes
  /\ UNCHANGED <<today, quotes, start, trend, told, pointer, hoverIndex>>

\* buildTrend looks at the clock again.
Trend ==
  [i \in 1..TrendDays |-> LET d == today - TrendDays + i IN [date |-> d, count |-> recent[d]]]

\* The page gets the answer.
Draws ==
  /\ recent # Unread
  /\ trend' = Trend /\ told' = taken
  /\ start' = 0 /\ recent' = Unread /\ taken' = Unread
  /\ UNCHANGED <<today, quotes, pointer, hoverIndex>>

\* buildStatusCounts: a status that groupBy does not return counts 0.
StatusCounts(groups, statuses) ==
  [s \in statuses |-> IF s \in DOMAIN groups THEN groups[s] ELSE 0]
-----------------------------------------------------------------------------
(* The page's charts *)

\* maxValue
Scale(counts) == Max({1} \cup counts)

BarLabelWidth == 110
BarChartWidth == 560
TrackWidth == BarChartWidth - BarLabelWidth - 48
BarHeight == 20
BarRadius == 4

\* A bar of StatusBreakdownChart and the label after it, times the scale.
BarEnd(value) == value * TrackWidth
CornerRadius(value, scale) == Min({BarRadius * scale, (BarHeight \div 2) * scale, BarEnd(value)})
BarLabel(value, scale) == (BarLabelWidth + 8) * scale + BarEnd(value)

TrendWidth == 560
PlotTop == 12
PlotLeft == 32
PlotWidth == TrendWidth - PlotLeft - 12
PlotHeight == 160 - PlotTop - 24

\* A point of TrendChart: across times (columns - 1), down times the scale.
Across(i, columns) == PlotLeft * Max({1, columns - 1}) + (i - 1) * PlotWidth
Down(count, scale) == (PlotTop + PlotHeight) * scale - count * PlotHeight

Distance(i, x, columns) ==
  LET d == Across(i, columns) - x * Max({1, columns - 1}) IN IF d < 0 THEN -d ELSE d

\* handleMove: the first of the nearest points.
Nearest(x, columns) ==
  LET IsNearest(i) == \A j \in 1..columns : Distance(i, x, columns) <= Distance(j, x, columns)
  IN  Min({i \in 1..columns : IsNearest(i)})

PointerMoves(x) ==
  /\ told # Unread
  /\ pointer' = x
  /\ hoverIndex' = IF trend = << >> THEN 1 ELSE Nearest(x, Len(trend))
  /\ UNCHANGED <<today, quotes, start, recent, trend, taken, told>>

PointerLeaves ==
  /\ pointer # Away
  /\ pointer' = Away /\ hoverIndex' = 0
  /\ UNCHANGED <<today, quotes, start, recent, trend, taken, told>>

\* The points that get a dot: the last one and the hovered one.
Dots == {Len(trend)} \cup ({hoverIndex} \ {0})

\* The tooltip tells date and count of points[hoverIndex].
Tooltip == trend[hoverIndex]
-----------------------------------------------------------------------------
ChartNext ==
  \/ QuoteCreated \/ (\E d \in Days : QuoteRemoved(d)) \/ Midnight
  \/ StartsMetrics \/ ReadsRecent \/ Draws
  \/ (\E x \in Pointers : PointerMoves(x)) \/ PointerLeaves

ChartSpec == ChartInit /\ [][ChartNext]_chartVars
-----------------------------------------------------------------------------
ChartTypeOK ==
  /\ today \in Days
  /\ start \in 0..MaxDay
  /\ quotes \in [Days -> 0..MaxPerDay]
  /\ {recent, taken, told} \subseteq [Days -> 0..MaxPerDay] \cup {Unread}
  /\ trend = Unread \/ trend \in [1..TrendDays -> [date : Days, count : 0..MaxPerDay]]
  /\ pointer \in Pointers \cup {Away}
  /\ hoverIndex \in 0..TrendDays

\* Midnight may pass between the queries and buildTrend, quotes come and go,
\* and new metrics come under a pointer that rests: every day the trend shows
\* has the quotes it had when they were read, the first day included, and the
\* column that is hovered is still there, the nearest, and has its dot.
TooltipTellsItsDay ==
  /\ \A i \in 1..Len(trend) : trend[i].count = told[trend[i].date]
  /\ hoverIndex # 0 =>
       /\ hoverIndex \in 1..Len(trend)
       /\ hoverIndex = Nearest(pointer, Len(trend))
       /\ Tooltip.date = trend[Len(trend)].date - (Len(trend) - hoverIndex)
       /\ Dots \subseteq 1..Len(trend)
-----------------------------------------------------------------------------
(* What fits into the charts *)

\* Whatever the counts, all of them zero or one far above the others, bars and
\* their labels and the trend's points stay inside their charts, and no corner
\* reaches back beyond the start of its bar.
ChartsFit(values, statuses) ==
  \A S \in SUBSET statuses : \A groups \in [S -> values \ {0}] :
    LET counts == StatusCounts(groups, statuses)
        scale == Scale({counts[s] : s \in statuses})
    IN  \A s \in statuses :
          /\ BarEnd(counts[s]) <= TrackWidth * scale
          /\ BarLabel(counts[s], scale) < BarChartWidth * scale
          /\ counts[s] > 0 => CornerRadius(counts[s], scale) <= BarEnd(counts[s])
          /\ Down(counts[s], scale) >= PlotTop * scale
          /\ Down(counts[s], scale) <= (PlotTop + PlotHeight) * scale

\* Counts that are missing, equal, and of any two magnitudes.
ASSUME SampledChartsFit == ChartsFit({0, 1, 2, 100, 1000}, {"PENDING", "DONE", "ERROR"})
=============================================================================
