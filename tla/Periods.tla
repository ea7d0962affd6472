------------------------------ MODULE Periods -------------------------------
(***************************************************************************)
(* Days, weeks, months and years in Nairobi as half-open intervals of UTC  *)
(* time: what handlers/utils.py and sales_service.py make of a reporting   *)
(* period and of a clock.  Time is counted in ticks, a date is its ordinal *)
(* number, and what the calendar says of a date (Python's datetime) is     *)
(* given by constants.  No variables.                                      *)
(***************************************************************************)
EXTENDS Integers

CONSTANTS
  Dates,      \* the dates considered, by their ordinal numbers
  Years,      \* their years, and the one after them
  Year,       \* date.year
  Month,      \* date.month
  FirstOf,    \* date(year, month, 1)
  AMonday,    \* the ordinal number of some Monday
  DayLength,  \* the ticks of a day
  Offset      \* the ticks by which Nairobi is ahead of UTC; it has no summer time

(* The months, in one line. *)
Serial(y, m) == 12 * y + m

ASSUME CalendarAssumption ==
  /\ Dates \subseteq Int /\ Years \subseteq Int /\ AMonday \in Int
  /\ DayLength \in Nat \ {0} /\ Offset \in Int
  /\ Year \in [Dates -> Years]
  /\ Month \in [Dates -> 1..12]
  /\ FirstOf \in [Years \X (1..12) -> Int]
  /\ \A d \in Dates : /\ Year[d] + 1 \in Years
                      /\ FirstOf[<<Year[d], Month[d]>>] <= d
                      /\ \A y \in Years : \A m \in 1..12 :
                           Serial(Year[d], Month[d]) < Serial(y, m) => d < FirstOf[<<y, m>>]
  /\ \A y, z \in Years : \A m, n \in 1..12 :
       Serial(y, m) < Serial(z, n) => FirstOf[<<y, m>>] < FirstOf[<<z, n>>]

\* Seeded fault: December has no month after it in the next year.
MonthAfterStuck(y, m) == IF m = 12 THEN <<y, 12>> ELSE <<y, m + 1>>

(* _resolve_relative_local_boundaries: December wraps. *)
MonthAfter(y, m) == IF m = 12 THEN <<y + 1, 1>> ELSE <<y, m + 1>>

-----------------------------------------------------------------------------
(* Dates and instants.                                                     *)

Bounds == [start: Int, end: Int]

(* datetime.combine(d, time.min, tzinfo=Nairobi).astimezone(UTC) *)
Midnight(d) == d * DayLength - Offset

(* datetime.now(Nairobi).date() *)
LocalDate(t) == (t + Offset) \div DayLength

(* date.today() on a machine whose zone is UTC. *)
ServerDate(t) == t \div DayLength

(* date.weekday(): Monday is 0. *)
Weekday(d) == (d - AMonday) % 7

(* _local_day_bounds_to_utc *)
DayBounds(d) == [start |-> Midnight(d), end |-> Midnight(d + 1)]

-----------------------------------------------------------------------------
(***************************************************************************)
(* ReportingPeriod: a relative one names a unit, a range its first and its *)
(* last date; the other fields are null, which the contract sees to.       *)
(***************************************************************************)
Units == {"day", "week", "month", "year"}

Relative(u) == [type |-> "relative", unit |-> u, first |-> 0, last |-> 0]

DateRange(d, e) == [type |-> "date_range", unit |-> "none", first |-> d, last |-> e]

Wellformed(p) ==
  \/ p.type = "relative" /\ p.unit \in Units
  \/ /\ p.type = "date_range" /\ p.unit = "none"
     /\ p.first \in Int /\ p.last \in Int /\ p.first < p.last

(* _resolve_relative_local_boundaries, for the unit that has date d in it. *)
UnitBounds(u, d) ==
  CASE u = "day"   -> DayBounds(d)
    [] u = "week"  -> LET monday == d - Weekday(d)
                      IN [start |-> Midnight(monday), end |-> Midnight(monday + 7)]
    [] u = "month" -> [start |-> Midnight(FirstOf[<<Year[d], Month[d]>>]),
                       end   |-> Midnight(FirstOf[MonthAfter(Year[d], Month[d])])]
    [] u = "year"  -> [start |-> Midnight(FirstOf[<<Year[d], 1>>]),
                       end   |-> Midnight(FirstOf[<<Year[d] + 1, 1>>])]

(* resolve_period_boundaries: the last date of a range belongs to it. *)
PeriodBounds(p, t) ==
  IF p.type = "relative"
  THEN UnitBounds(p.unit, LocalDate(t))
  ELSE [start |-> Midnight(p.first), end |-> Midnight(p.last + 1)]

\* Seeded fault: the period before a unit is as long as the unit, as it was
\* before ADR 008.
PreviousBoundsByLength(p, t) ==
  LET current == PeriodBounds(p, t)
  IN [start |-> 2 * current.start - current.end, end |-> current.start]

(***************************************************************************)
(* resolve_previous_period_boundaries: the unit of the date before this    *)
(* one, or a range of the same length that ends where this one begins.     *)
(***************************************************************************)
PreviousBounds(p, t) ==
  LET current == PeriodBounds(p, t)
  IN IF p.type = "relative"
     THEN UnitBounds(p.unit, LocalDate(current.start) - 1)
     ELSE [start |-> current.start - (current.end - current.start), end |-> current.start]

-----------------------------------------------------------------------------
(* What the intervals are to be, said of dates and not of their ends.      *)

SameUnit(u, d, e) ==
  CASE u = "day"   -> d = e
    [] u = "week"  -> (d - AMonday) \div 7 = (e - AMonday) \div 7
    [] u = "month" -> Year[d] = Year[e] /\ Month[d] = Month[e]
    [] u = "year"  -> Year[d] = Year[e]

InBounds(b, t) == b.start <= t /\ t < b.end

(* The first date of a bounded interval, and the first one after it. *)
FirstDate(b) == LocalDate(b.start)
NextDate(b) == LocalDate(b.end)

(* The calendar reaches as far as the unit of date d. *)
Covers(u, d) ==
  /\ d \in Dates
  /\ FirstDate(UnitBounds(u, d)) \in Dates
  /\ NextDate(UnitBounds(u, d)) - 1 \in Dates

(* b begins and ends at midnights, and has the dates of d's unit and no others. *)
IsUnitOf(b, u, d) ==
  LET first == FirstDate(b)
      next  == NextDate(b)
  IN /\ b = [start |-> Midnight(first), end |-> Midnight(next)]
     /\ first \in Dates /\ next - 1 \in Dates
     /\ first <= d /\ d < next
     /\ SameUnit(u, first, d) /\ SameUnit(u, next - 1, d)
     /\ first - 1 \in Dates => ~ SameUnit(u, first - 1, d)
     /\ next \in Dates => ~ SameUnit(u, next, d)
=============================================================================
