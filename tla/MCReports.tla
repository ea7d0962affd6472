------------------------------ MODULE MCReports -----------------------------
(* The calendar of 2022 to 2025, a day in ticks of three hours, and two    *)
(* sales that tie in units and not in revenue.                             *)
EXTENDS Reports

MCYears == 2022..2026

Leap(y) == y % 4 = 0 /\ (y % 100 # 0 \/ y % 400 = 0)
Before == <<0, 31, 59, 90, 120, 151, 181, 212, 243, 273, 304, 334>>
DaysBefore(y) == 365 * (y - 2022) + IF y > 2024 THEN 1 ELSE 0

\* Day 0 is the first of January 2022, a Saturday.
MCFirstOf == [ym \in MCYears \X (1..12) |->
  DaysBefore(ym[1]) + Before[ym[2]] + IF ym[2] > 2 /\ Leap(ym[1]) THEN 1 ELSE 0]
MCAMonday == 2
MCDates == 0..(DaysBefore(2026) - 1)
MCYear == [d \in MCDates |-> CHOOSE y \in 2022..2025 :
             MCFirstOf[<<y, 1>>] <= d /\ d < MCFirstOf[<<y + 1, 1>>]]
MCMonth == [d \in MCDates |-> CHOOSE m \in 1..12 :
              /\ MCFirstOf[<<MCYear[d], m>>] <= d
              /\ m < 12 => d < MCFirstOf[<<MCYear[d], m + 1>>]]
MCDayLength == 8
MCOffset == 1

\* The evenings of Sunday 31 December 2023, 29 February 2024, 15 May 2024 and 31 December 2024.
Evenings == {MCFirstOf[<<2024, 1>>] - 1, MCFirstOf[<<2024, 3>>] - 1,
             MCFirstOf[<<2024, 5>>] + 14, MCFirstOf[<<2025, 1>>] - 1}
MCBeginnings == {8 * d + 6 : d \in Evenings}

MCProducts == 1..2
MCSales == 1..2
MCProduct == <<1, 2>>
MCQuantity == <<1, 1>>
MCPrice == <<1, 3>>

Eve == MCFirstOf[<<2025, 1>>] - 1
Ranges == {DateRange(Eve - 1, Eve), DateRange(Eve, Eve + 1)}
MCPeriods == {Relative(u) : u \in Units} \union Ranges

MCRequests ==
  {[kind |-> "report"]}
  \union {[kind |-> "rest", date |-> d] : d \in Optional({Eve})}
  \union {[kind |-> "top", period |-> p] : p \in Ranges}
  \union {[kind |-> "summary", period |-> p] : p \in MCPeriods}
  \union {[kind |-> "slow", period |-> p, max |-> 0, limit |-> l] : p \in Ranges, l \in 1..2}
  \union {[kind |-> "trend", period |-> p, comparison |-> {}] : p \in MCPeriods}
  \union {[kind |-> "trend", period |-> Relative("month"), comparison |-> {Relative("day")}]}
=============================================================================
