----------------------------- MODULE ReportsProofs -----------------------------
(***************************************************************************)
(* Proofs about Periods and Reports, for any calendar of weeks, months and *)
(* years, any zone without summer time, and any sales and requests: the    *)
(* periods are units, a trend compares neighbours, no figure has a foreign *)
(* date, and of a period that was over none is missing.                    *)
(***************************************************************************)
EXTENDS Reports, SumProofs

(* Days and midnights. *)

LEMMA DaysOrder ==
  ASSUME NEW d \in Int, NEW e \in Int, d <= e
  PROVE  d * DayLength <= e * DayLength
<1>1. DayLength \in Nat \ {0}
  BY CalendarAssumption
<1> QED BY <1>1

LEMMA DateOf ==
  ASSUME NEW t \in Int
  PROVE  /\ LocalDate(t) \in Int
         /\ Midnight(LocalDate(t)) <= t
         /\ t < Midnight(LocalDate(t) + 1)
<1>1. DayLength \in Nat \ {0} /\ Offset \in Int
  BY CalendarAssumption
<1> QED BY <1>1 DEF LocalDate, Midnight

LEMMA MidnightOrder ==
  ASSUME NEW d \in Int, NEW e \in Int
  PROVE  /\ Midnight(d) \in Int
         /\ d <= e => Midnight(d) <= Midnight(e)
         /\ d < e => Midnight(d) < Midnight(e)
<1>1. DayLength \in Nat \ {0} /\ Offset \in Int
  BY CalendarAssumption
<1>2. d <= e => d * DayLength <= e * DayLength
  BY DaysOrder
<1>3. d < e => (d + 1) * DayLength <= e * DayLength
  BY DaysOrder
<1>4. (d + 1) * DayLength = d * DayLength + DayLength
  BY <1>1
<1> QED BY <1>1, <1>2, <1>3, <1>4 DEF Midnight

LEMMA DayOfInstant ==
  ASSUME NEW t \in Int, NEW d \in Int
  PROVE  Midnight(d) <= t <=> d <= LocalDate(t)
<1> DEFINE x == LocalDate(t)
<1>1. x \in Int /\ Midnight(x) <= t /\ t < Midnight(x + 1)
  BY DateOf
<1>2. d <= x => Midnight(d) <= Midnight(x)
  BY <1>1, MidnightOrder
<1>3. x + 1 <= d => Midnight(x + 1) <= Midnight(d)
  BY <1>1, MidnightOrder
<1>4. Midnight(d) \in Int /\ Midnight(x) \in Int /\ Midnight(x + 1) \in Int
  BY <1>1, MidnightOrder
<1> HIDE DEF x
<1>5. Midnight(d) <= t <=> d <= x
  BY <1>1, <1>2, <1>3, <1>4
<1> QED BY <1>5 DEF x

LEMMA DateOfMidnight ==
  ASSUME NEW d \in Int
  PROVE  LocalDate(Midnight(d)) = d
<1> DEFINE m == Midnight(d)
<1>1. m \in Int /\ m < Midnight(d + 1) /\ Midnight(d + 1) \in Int
  BY MidnightOrder
<1>2. LocalDate(m) \in Int
  BY <1>1, DateOf
<1>3. d <= LocalDate(m)
  BY <1>1, DayOfInstant
<1>4. d + 1 \in Int
  OBVIOUS
<1>5. ~ (d + 1 <= LocalDate(m))
  BY <1>1, <1>4, DayOfInstant
<1> QED BY <1>2, <1>3, <1>5

(* Weeks, months and years, by the dates in them. *)

LEMMA WeekDates ==
  ASSUME NEW d \in Int, NEW e \in Int
  PROVE  /\ d - Weekday(d) \in Int
         /\ d - Weekday(d) <= d /\ d < d - Weekday(d) + 7
         /\ d - Weekday(d) <= e /\ e < d - Weekday(d) + 7 <=> SameUnit("week", e, d)
<1>1. AMonday \in Int
  BY CalendarAssumption
<1> QED BY <1>1 DEF Weekday, SameUnit

LEMMA MonthFacts ==
  ASSUME NEW d \in Dates
  PROVE  /\ d \in Int
         /\ Year[d] \in Years /\ Year[d] + 1 \in Years
         /\ Year[d] \in Int
         /\ Month[d] \in 1..12
BY CalendarAssumption

LEMMA SerialInjective ==
  ASSUME NEW y \in Int, NEW z \in Int, NEW m \in 1..12, NEW k \in 1..12
  PROVE  /\ Serial(y, m) \in Int
         /\ Serial(z, k) = Serial(y, m) => z = y /\ k = m
BY DEF Serial

LEMMA MonthDates ==
  ASSUME NEW d \in Dates
  PROVE  LET f == FirstOf[<<Year[d], Month[d]>>]
             n == FirstOf[MonthAfter(Year[d], Month[d])]
         IN /\ f \in Int /\ n \in Int /\ f <= d /\ d < n
            /\ \A e \in Dates : f <= e /\ e < n <=> SameUnit("month", e, d)
<1> DEFINE y == Year[d]
           m == Month[d]
           yn == IF m = 12 THEN y + 1 ELSE y
           mn == IF m = 12 THEN 1 ELSE m + 1
           f == FirstOf[<<y, m>>]
           n == FirstOf[<<yn, mn>>]
<1>1. /\ d \in Int /\ y \in Int /\ y \in Years /\ yn \in Years /\ yn \in Int
      /\ m \in 1..12 /\ mn \in 1..12
  BY MonthFacts
<1>2. Serial(yn, mn) = Serial(y, m) + 1
  BY <1>1 DEF Serial
<1>3. f \in Int /\ n \in Int
  <2>1. <<y, m>> \in Years \X (1..12) /\ <<yn, mn>> \in Years \X (1..12)
    BY <1>1
  <2> QED BY <2>1, CalendarAssumption
<1>4. MonthAfter(y, m) = <<yn, mn>>
  BY DEF MonthAfter
<1>5. f <= d
  BY CalendarAssumption
<1>6. d < n
  <2>1. Serial(y, m) < Serial(yn, mn)
    BY <1>1, <1>2 DEF Serial
  <2> QED BY <1>1, <2>1, CalendarAssumption
<1>7. ASSUME NEW e \in Dates
      PROVE  f <= e /\ e < n <=> Year[e] = y /\ Month[e] = m
  <2> DEFINE z == Year[e]
             k == Month[e]
             g == FirstOf[<<z, k>>]
  <2>1. /\ e \in Int /\ z \in Int /\ z \in Years /\ k \in 1..12
    BY MonthFacts
  <2>2. g \in Int /\ g <= e
    <3>1. <<z, k>> \in Years \X (1..12)
      BY <2>1
    <3> QED BY <3>1, CalendarAssumption
  <2>3. Serial(z, k) < Serial(y, m) => e < f
    BY <1>1, <2>1, CalendarAssumption
  <2>4. Serial(z, k) < Serial(yn, mn) => e < n
    BY <1>1, <2>1, CalendarAssumption
  <2>5. Serial(yn, mn) < Serial(z, k) => n < g
    BY <1>1, <2>1, CalendarAssumption
  <2>6. Serial(z, k) = Serial(yn, mn) => z = yn /\ k = mn
    <3>1. yn \in Int /\ z \in Int /\ mn \in 1..12 /\ k \in 1..12
      BY <1>1, <2>1
    <3> HIDE DEF y, m, yn, mn, z, k
    <3> QED BY <3>1 DEF Serial
  <2>7. Serial(z, k) = Serial(y, m) => z = y /\ k = m
    BY <1>1, <2>1, SerialInjective
  <2>8. Serial(z, k) \in Int /\ Serial(y, m) \in Int
    BY <1>1, <2>1, SerialInjective
  <2>9. CASE z = y /\ k = m
    <3>1. g = f /\ Serial(z, k) = Serial(y, m)
      BY <2>9
    <3> HIDE DEF f, n, g, z, k, y, m
    <3>2. f <= e /\ e < n
      BY <3>1, <2>2, <2>4, <2>8, <1>2
    <3> QED BY <3>2, <2>9 DEF z, k
  <2>10. CASE ~ (z = y /\ k = m)
    <3>1. CASE Serial(z, k) < Serial(y, m)
      BY <2>1, <1>3, <3>1, <2>3, <2>10
    <3>2. CASE Serial(yn, mn) <= Serial(z, k)
      <4>1. n <= g
        BY <3>2, <2>5, <2>6, <1>2, <2>8, <1>3, <2>2
      <4> QED BY <4>1, <2>2, <2>1, <1>3, <2>10
    <3> QED BY <3>1, <3>2, <2>7, <2>8, <2>10, <1>2
  <2> QED BY <2>9, <2>10
<1> QED BY <1>3, <1>4, <1>5, <1>6, <1>7 DEF SameUnit

LEMMA YearDates ==
  ASSUME NEW d \in Dates
  PROVE  LET f == FirstOf[<<Year[d], 1>>]
             n == FirstOf[<<Year[d] + 1, 1>>]
         IN /\ f \in Int /\ n \in Int /\ f <= d /\ d < n
            /\ \A e \in Dates : f <= e /\ e < n <=> SameUnit("year", e, d)
<1> DEFINE y == Year[d]
           f == FirstOf[<<y, 1>>]
           n == FirstOf[<<y + 1, 1>>]
<1>1. /\ d \in Int /\ y \in Int /\ y \in Years /\ y + 1 \in Years /\ y + 1 \in Int
      /\ Month[d] \in 1..12
  BY MonthFacts
<1>2. f \in Int /\ n \in Int
  <2>1. <<y, 1>> \in Years \X (1..12) /\ <<y + 1, 1>> \in Years \X (1..12)
    BY <1>1
  <2> QED BY <2>1, CalendarAssumption
<1>3. ASSUME NEW e \in Dates
      PROVE  /\ e \in Int
             /\ Year[e] = y => f <= e /\ e < n
             /\ Year[e] < y => e < f
             /\ y < Year[e] => n <= e
  <2> DEFINE z == Year[e]
             k == Month[e]
             g == FirstOf[<<z, k>>]
  <2>1. e \in Int /\ z \in Int /\ z \in Years /\ k \in 1..12 /\ 1 \in 1..12
    BY MonthFacts
  <2>2. g \in Int /\ g <= e
    <3>1. <<z, k>> \in Years \X (1..12)
      BY <2>1
    <3> QED BY <3>1, CalendarAssumption
  <2>3. z = y => e < n
    <3>1. z = y => Serial(z, k) < Serial(y + 1, 1)
      BY <1>1, <2>1 DEF Serial
    <3> QED BY <1>1, <2>1, <3>1, CalendarAssumption
  <2>4. z < y => e < f
    <3>1. z < y => Serial(z, k) < Serial(y, 1)
      BY <1>1, <2>1 DEF Serial
    <3> QED BY <1>1, <2>1, <3>1, CalendarAssumption
  <2>5. z = y => f <= g
    <3>1. z = y /\ k # 1 => Serial(y, 1) < Serial(z, k)
      BY <1>1, <2>1 DEF Serial
    <3>2. z = y /\ k # 1 => f < g
      BY <1>1, <2>1, <3>1, CalendarAssumption
    <3> QED BY <3>2, <1>2, <2>2
  <2>6. y < z => n <= g
    <3>1. y < z => Serial(y + 1, 1) < Serial(z, k) \/ (z = y + 1 /\ k = 1)
      BY <1>1, <2>1 DEF Serial
    <3>2. Serial(y + 1, 1) < Serial(z, k) => n < g
      BY <1>1, <2>1, CalendarAssumption
    <3> QED BY <3>1, <3>2, <1>2, <2>2
  <2> QED BY <2>1, <2>2, <2>3, <2>4, <2>5, <2>6, <1>2
<1>4. f <= d /\ d < n
  BY <1>3
<1>5. ASSUME NEW e \in Dates
      PROVE  f <= e /\ e < n <=> Year[e] = y
  <2>1. Year[e] \in Int
    BY MonthFacts
  <2> QED BY <1>1, <1>2, <1>3, <2>1
<1> QED BY <1>2, <1>4, <1>5 DEF SameUnit

(* A unit is bounded by midnights, and between them are its dates. *)
WholeDays(b) == \E d, e \in Int : b = [start |-> Midnight(d), end |-> Midnight(e)]

LEMMA UnitDates ==
  ASSUME NEW u \in Units, NEW d \in Dates
  PROVE  \E f, n \in Int :
           /\ UnitBounds(u, d) = [start |-> Midnight(f), end |-> Midnight(n)]
           /\ f <= d /\ d < n
           /\ \A e \in Dates : f <= e /\ e < n <=> SameUnit(u, e, d)
<1>1. d \in Int /\ Dates \subseteq Int
  BY CalendarAssumption
<1>2. CASE u = "day"
  <2>1. \A e \in Dates : d <= e /\ e < d + 1 <=> e = d
    BY <1>1
  <2>2. UnitBounds(u, d) = [start |-> Midnight(d), end |-> Midnight(d + 1)]
    BY <1>2 DEF UnitBounds, DayBounds
  <2>3. d <= d /\ d < d + 1 /\ d + 1 \in Int
    BY <1>1
  <2> QED BY <2>1, <2>2, <2>3, <1>1, <1>2 DEF SameUnit
<1>3. CASE u = "week"
  <2> DEFINE f == d - Weekday(d)
  <2>1. UnitBounds(u, d) = [start |-> Midnight(f), end |-> Midnight(f + 7)]
    BY <1>3 DEF UnitBounds
  <2>2. f \in Int /\ f + 7 \in Int /\ f <= d /\ d < f + 7
    BY <1>1, WeekDates
  <2>3. \A e \in Dates : f <= e /\ e < f + 7 <=> SameUnit("week", e, d)
    BY <1>1, WeekDates
  <2> QED BY <1>3, <2>1, <2>2, <2>3
<1>4. CASE u = "month"
  <2>1. UnitBounds(u, d) = [start |-> Midnight(FirstOf[<<Year[d], Month[d]>>]),
                            end   |-> Midnight(FirstOf[MonthAfter(Year[d], Month[d])])]
    BY <1>4 DEF UnitBounds
  <2> QED BY <1>4, <2>1, MonthDates
<1>5. CASE u = "year"
  <2>1. UnitBounds(u, d) = [start |-> Midnight(FirstOf[<<Year[d], 1>>]),
                            end   |-> Midnight(FirstOf[<<Year[d] + 1, 1>>])]
    BY <1>5 DEF UnitBounds
  <2> QED BY <1>5, <2>1, YearDates
<1> QED BY <1>2, <1>3, <1>4, <1>5 DEF Units

LEMMA SameUnitEquivalence ==
  ASSUME NEW u \in Units, NEW d, NEW e
  PROVE  /\ SameUnit(u, d, d)
         /\ SameUnit(u, d, e) => SameUnit(u, e, d)
         /\ \A x : SameUnit(u, d, e) /\ SameUnit(u, e, x) => SameUnit(u, d, x)
BY DEF SameUnit, Units

LEMMA SameBounds ==
  ASSUME NEW u \in Units, NEW d \in Int, NEW e \in Int, SameUnit(u, d, e)
  PROVE  UnitBounds(u, d) = UnitBounds(u, e)
<1>1. CASE u = "week"
  <2>1. d - Weekday(d) = e - Weekday(e)
    <3>1. AMonday \in Int
      BY CalendarAssumption
    <3>2. (d - AMonday) \div 7 = (e - AMonday) \div 7
      BY <1>1 DEF SameUnit
    <3> QED BY <3>1, <3>2 DEF Weekday
  <2> QED BY <1>1, <2>1 DEF UnitBounds
<1> QED BY <1>1 DEF UnitBounds, SameUnit, Units

(* UnitBounds has the unit of its date, when the calendar reaches that far. *)
LEMMA UnitIsUnit ==
  ASSUME NEW u \in Units, NEW d, Covers(u, d)
  PROVE  LET b == UnitBounds(u, d)
         IN /\ IsUnitOf(b, u, d)
            /\ b \in Bounds
            /\ FirstDate(b) \in Int /\ NextDate(b) \in Int
            /\ \A e \in Dates : FirstDate(b) <= e /\ e < NextDate(b) <=> SameUnit(u, e, d)
<1> DEFINE b == UnitBounds(u, d)
<1>1. d \in Dates /\ Dates \subseteq Int /\ d \in Int
  BY CalendarAssumption DEF Covers
<1>2. PICK f, n \in Int :
        /\ b = [start |-> Midnight(f), end |-> Midnight(n)]
        /\ f <= d /\ d < n
        /\ \A e \in Dates : f <= e /\ e < n <=> SameUnit(u, e, d)
  BY <1>1, UnitDates
<1>3. b.start = Midnight(f) /\ b.end = Midnight(n)
  BY <1>2
<1>4. FirstDate(b) = f /\ NextDate(b) = n
  BY <1>2, <1>3, DateOfMidnight DEF FirstDate, NextDate
<1>5. f \in Dates /\ n - 1 \in Dates
  BY <1>4 DEF Covers
<1>6. Midnight(f) \in Int /\ Midnight(n) \in Int
  BY MidnightOrder
<1>7. f <= n - 1 /\ n - 1 < n /\ f < n /\ f <= f
  BY <1>1, <1>2
<1>8. SameUnit(u, f, d) /\ SameUnit(u, n - 1, d)
  BY <1>2, <1>5, <1>7
<1>9. /\ f - 1 \in Dates => ~ SameUnit(u, f - 1, d)
      /\ n \in Dates => ~ SameUnit(u, n, d)
  <2>1. ~ (f <= f - 1) /\ ~ (n < n)
    OBVIOUS
  <2> QED BY <1>2, <2>1
<1>10. b \in Bounds
  BY <1>2, <1>6 DEF Bounds
<1> HIDE DEF b
<1> QED BY <1>2, <1>4, <1>5, <1>8, <1>9, <1>10 DEF IsUnitOf, b

(* The periods that the code resolves. *)

LEMMA ClockDates ==
  ASSUME NEW t \in Times, NEW u \in Units
  PROVE  /\ t \in Int
         /\ Covers(u, LocalDate(t))
         /\ Covers(u, FirstDate(UnitBounds(u, LocalDate(t))) - 1)
<1>1. t \in Int
  BY ReportsAssumption DEF Times
<1> QED BY <1>1, ReportsAssumption

LEMMA DayBoundsWhole ==
  ASSUME NEW d \in Int
  PROVE  WholeDays(DayBounds(d))
<1>1. d + 1 \in Int
  OBVIOUS
<1> QED BY <1>1 DEF WholeDays, DayBounds

LEMMA WholeDaysFacts ==
  ASSUME NEW b, WholeDays(b)
  PROVE  /\ b \in Bounds
         /\ FirstDate(b) \in Int /\ NextDate(b) \in Int
         /\ b = [start |-> Midnight(FirstDate(b)), end |-> Midnight(NextDate(b))]
         /\ \A t \in Int :
              InBounds(b, t) <=> FirstDate(b) <= LocalDate(t) /\ LocalDate(t) < NextDate(b)
<1>1. PICK f, n \in Int : b = [start |-> Midnight(f), end |-> Midnight(n)]
  BY DEF WholeDays
<1>2. b.start = Midnight(f) /\ b.end = Midnight(n)
  BY <1>1
<1>3. FirstDate(b) = f /\ NextDate(b) = n
  BY <1>2, DateOfMidnight DEF FirstDate, NextDate
<1>4. Midnight(f) \in Int /\ Midnight(n) \in Int
  BY MidnightOrder
<1>5. b \in Bounds
  BY <1>1, <1>4 DEF Bounds
<1>6. ASSUME NEW t \in Int
      PROVE  InBounds(b, t) <=> f <= LocalDate(t) /\ LocalDate(t) < n
  <2>1. Midnight(f) <= t <=> f <= LocalDate(t)
    BY DayOfInstant
  <2>2. Midnight(n) <= t <=> n <= LocalDate(t)
    BY DayOfInstant
  <2>3. LocalDate(t) \in Int
    BY DateOf
  <2> QED BY <1>2, <1>4, <2>1, <2>2, <2>3 DEF InBounds
<1> QED BY <1>1, <1>3, <1>5, <1>6

LEMMA PeriodWhole ==
  ASSUME NEW p, Wellformed(p), NEW t \in Times
  PROVE  WholeDays(PeriodBounds(p, t))
<1>1. CASE p.type = "relative"
  <2>1. p.unit \in Units
    BY <1>1 DEF Wellformed
  <2>2. LocalDate(t) \in Dates
    BY <2>1, ClockDates DEF Covers
  <2>3. WholeDays(UnitBounds(p.unit, LocalDate(t)))
    BY <2>1, <2>2, UnitDates DEF WholeDays
  <2> QED BY <1>1, <2>3 DEF PeriodBounds
<1>2. CASE p.type # "relative"
  <2>1. p.first \in Int /\ p.last + 1 \in Int
    BY <1>2 DEF Wellformed
  <2> QED BY <1>2, <2>1 DEF PeriodBounds, WholeDays
<1> QED BY <1>1, <1>2

LEMMA PreviousWhole ==
  ASSUME NEW p, Wellformed(p), NEW t \in Times
  PROVE  WholeDays(PreviousBounds(p, t))
<1> DEFINE current == PeriodBounds(p, t)
<1>1. CASE p.type = "relative"
  <2>1. p.unit \in Units
    BY <1>1 DEF Wellformed
  <2>2. current = UnitBounds(p.unit, LocalDate(t))
    BY <1>1 DEF PeriodBounds
  <2>3. LocalDate(current.start) - 1 \in Dates
    BY <2>1, <2>2, ClockDates DEF Covers, FirstDate
  <2>4. WholeDays(UnitBounds(p.unit, LocalDate(current.start) - 1))
    BY <2>1, <2>3, UnitDates DEF WholeDays
  <2> QED BY <1>1, <2>4 DEF PreviousBounds
<1>2. CASE p.type # "relative"
  <2>1. p.first \in Int /\ p.last \in Int
    BY <1>2 DEF Wellformed
  <2> DEFINE f == p.first
             n == p.last + 1
             g == f - (n - f)
  <2>2. f \in Int /\ n \in Int /\ g \in Int
    BY <2>1
  <2>3. current = [start |-> Midnight(f), end |-> Midnight(n)]
    BY <1>2 DEF PeriodBounds
  <2>4. PreviousBounds(p, t)
          = [start |-> Midnight(f) - (Midnight(n) - Midnight(f)), end |-> Midnight(f)]
    BY <1>2, <2>3 DEF PreviousBounds
  <2> HIDE DEF f, n
  <2>5. Midnight(f) - (Midnight(n) - Midnight(f)) = Midnight(g)
    BY <2>2, CalendarAssumption DEF Midnight
  <2> HIDE DEF g
  <2> QED BY <2>2, <2>4, <2>5 DEF WholeDays
<1> QED BY <1>1, <1>2

(***************************************************************************)
(* Of two readings of the clock less than a day apart the second is in the *)
(* same unit or in the next: the unit before the second's is the one       *)
(* before the first's, or the first's itself, which is over by then.       *)
(***************************************************************************)
LEMMA PreviousOfUnit ==
  ASSUME NEW p, p.type = "relative", Wellformed(p),
         NEW t \in Times, NEW w \in Times, t <= w, w <= t + Horizon
  PROVE  LET b == PeriodBounds(p, t)
             c == PreviousBounds(p, w)
         IN \/ /\ c.end = b.start
               /\ IsUnitOf(c, p.unit, LocalDate(c.start))
            \/ c = b /\ b.end <= w
<1> DEFINE u == p.unit
           d == LocalDate(t)
           e == LocalDate(w)
           b == UnitBounds(u, d)
           k == UnitBounds(u, e)
           c == UnitBounds(u, LocalDate(k.start) - 1)
<1>1. u \in Units
  BY DEF Wellformed
<1>2. PeriodBounds(p, t) = b /\ PreviousBounds(p, w) = c
  BY DEF PeriodBounds, PreviousBounds
<1>3. d \in Int /\ e \in Int /\ d <= e /\ e <= d + 1
  <2>1. t \in Int /\ w \in Int
    BY <1>1, ClockDates
  <2>2. d \in Int /\ e \in Int /\ Midnight(d) <= t /\ t < Midnight(d + 1) /\ Midnight(e) <= w
    BY <2>1, DateOf
  <2>3. d <= e
    <3>1. Midnight(d) \in Int
      BY <2>2, MidnightOrder
    <3>2. Midnight(d) <= w
      BY <2>1, <2>2, <3>1
    <3> QED BY <2>1, <2>2, <3>2, DayOfInstant
  <2>4. Midnight(d + 2) = Midnight(d + 1) + DayLength /\ d + 2 \in Int /\ d + 1 \in Int
    <3> HIDE DEF d
    <3> QED BY <2>2, CalendarAssumption DEF Midnight
  <2>5. Midnight(d + 1) \in Int
    BY <2>4, MidnightOrder
  <2>6. w < Midnight(d + 2)
    <3>1. Horizon \in Nat /\ DayLength \in Nat /\ Horizon <= DayLength
      BY HorizonAssumption, CalendarAssumption, ReportsAssumption
    <3> HIDE DEF d
    <3> QED BY <3>1, <2>1, <2>2, <2>4, <2>5
  <2>7. ~ (d + 2 <= e)
    <3>1. Midnight(d + 2) <= w <=> d + 2 <= e
      BY <2>1, <2>4, DayOfInstant
    <3>2. Midnight(d + 2) \in Int
      BY <2>4, MidnightOrder
    <3> HIDE DEF d, e
    <3> QED BY <3>1, <3>2, <2>1, <2>6
  <2> HIDE DEF d, e
  <2> QED BY <2>2, <2>3, <2>7
<1>4. Covers(u, d) /\ Covers(u, e) /\ Covers(u, FirstDate(k) - 1)
  BY <1>1, ClockDates
<1>5. c = UnitBounds(u, FirstDate(k) - 1)
  BY DEF FirstDate
<1> HIDE DEF c
<1> DEFINE f == FirstDate(b)
           n == NextDate(b)
           g == FirstDate(k)
<1>6. /\ IsUnitOf(b, u, d) /\ f \in Int /\ n \in Int
      /\ \A x \in Dates : f <= x /\ x < n <=> SameUnit(u, x, d)
  BY <1>1, <1>4, UnitIsUnit
<1>7. /\ IsUnitOf(k, u, e) /\ g \in Int
      /\ \A x \in Dates : g <= x /\ x < NextDate(k) <=> SameUnit(u, x, e)
  BY <1>1, <1>4, UnitIsUnit
<1>8. /\ IsUnitOf(c, u, g - 1) /\ NextDate(c) \in Int /\ FirstDate(c) \in Int
      /\ \A x \in Dates : FirstDate(c) <= x /\ x < NextDate(c) <=> SameUnit(u, x, g - 1)
  BY <1>1, <1>4, <1>5, UnitIsUnit
<1>9. d \in Dates /\ e \in Dates /\ g \in Dates /\ g - 1 \in Dates
  BY <1>4 DEF Covers
<1>10. CASE SameUnit(u, d, e)
  <2>1. b = k
    BY <1>1, <1>3, <1>10, SameBounds
  <2> HIDE DEF b, k, d, e
  <2>2. ~ SameUnit(u, g, g - 1)
    <3>1. SameUnit(u, g, e) /\ ~ SameUnit(u, g - 1, e)
      BY <1>7, <1>9 DEF IsUnitOf
    <3> QED BY <1>1, <3>1, SameUnitEquivalence
  <2>3. g - 1 < NextDate(c) /\ FirstDate(c) <= g - 1
    BY <1>8 DEF IsUnitOf
  <2>4. NextDate(c) = g
    BY <1>7, <1>8, <1>9, <2>2, <2>3
  <2>5. c.end = Midnight(g) /\ k.start = Midnight(g)
    <3>1. c = [start |-> Midnight(FirstDate(c)), end |-> Midnight(NextDate(c))]
      BY <1>8 DEF IsUnitOf
    <3>2. k = [start |-> Midnight(g), end |-> Midnight(NextDate(k))]
      BY <1>7 DEF IsUnitOf
    <3>3. c.end = Midnight(NextDate(c)) /\ k.start = Midnight(g)
      BY <3>1, <3>2
    <3> QED BY <3>3, <2>4
  <2>6. IsUnitOf(c, u, FirstDate(c))
    <3>1. SameUnit(u, FirstDate(c), g - 1)
      BY <1>8 DEF IsUnitOf
    <3>2. FirstDate(c) < NextDate(c) /\ FirstDate(c) <= FirstDate(c)
      BY <1>7, <1>8, <2>3
    <3>3. \A x : SameUnit(u, x, g - 1) <=> SameUnit(u, x, FirstDate(c))
      BY <1>1, <3>1, SameUnitEquivalence
    <3> QED BY <1>8, <3>2, <3>3 DEF IsUnitOf
  <2> QED BY <1>2, <2>1, <2>5, <2>6 DEF FirstDate
<1>11. CASE ~ SameUnit(u, d, e)
  <2>1. e = d + 1 /\ n = e
    <3>1. e # d
      BY <1>1, <1>11, SameUnitEquivalence
    <3>2. ~ SameUnit(u, e, d)
      BY <1>1, <1>11, SameUnitEquivalence
    <3>3. f <= d /\ d < n
      BY <1>6 DEF IsUnitOf
    <3> HIDE DEF b, k, d, e, f, n
    <3>4. e = d + 1
      BY <1>3, <3>1
    <3>5. ~ (e < n)
      BY <1>3, <1>6, <1>9, <3>2, <3>3, <3>4
    <3> QED BY <1>3, <1>6, <3>3, <3>4, <3>5
  <2> HIDE DEF b, k, d, e
  <2>2. g = e
    <3>1. g <= e
      BY <1>7 DEF IsUnitOf
    <3>2. ~ SameUnit(u, d, e)
      BY <1>11
    <3>3. ~ (g <= d /\ d < NextDate(k))
      BY <1>7, <1>9, <3>2
    <3>4. e < NextDate(k) /\ NextDate(k) \in Int
      BY <1>1, <1>4, <1>7, UnitIsUnit DEF IsUnitOf, k
    <3> QED BY <1>3, <1>7, <2>1, <3>1, <3>3, <3>4
  <2>3. c = b
    <3>1. g - 1 = d
      BY <1>3, <2>1, <2>2
    <3> QED BY <1>5, <3>1 DEF b
  <2>4. b.end <= w
    <3>1. b = [start |-> Midnight(f), end |-> Midnight(n)]
      BY <1>6 DEF IsUnitOf
    <3>2. b.end = Midnight(e)
      BY <3>1, <2>1
    <3>3. w \in Int
      BY <1>1, ClockDates
    <3> QED BY <3>2, <3>3, DateOf DEF e
  <2> QED BY <1>2, <2>3, <2>4
<1> QED BY <1>10, <1>11

-----------------------------------------------------------------------------
(***************************************************************************)
(* The inductive invariant.  A request that has read the clock keeps the   *)
(* bounds which that reading gives, and a trend those of another reading,  *)
(* later and within the behaviour.                                         *)
(***************************************************************************)
BoundsAsked(r, t) ==
  CASE request[r].kind = "report" -> DayBounds(ServerDate(t))
    [] request[r].kind = "rest"   -> DayBounds(DayAsked(r, t))
    [] OTHER                      -> PeriodBounds(request[r].period, t)

PreviousAsked(r, t) ==
  IF request[r].comparison = {} THEN PreviousBounds(request[r].period, t)
  ELSE PeriodBounds(Given(request[r].comparison), t)

Timely ==
  /\ \E b \in Beginnings : end = b + Horizon /\ now \in b..end
  /\ \A s \in Sales : stage[s] # "none" => stamp[s] \in Times /\ stamp[s] <= now

(* Which places a request of each kind can be at. *)
Routed ==
  \A r \in Readers :
    LET kind == request[r].kind
    IN /\ at[r] = "begun" => kind \in Tools \union {"rest"}
       /\ at[r] \in {"queued", "send"} => kind = "report"
       /\ at[r] \in {"compare", "before"} => kind = "trend"
       /\ at[r] = "summary" => kind \in {"report", "rest", "summary", "trend"}
       /\ at[r] \in {"units", "revenue"} => kind \in {"report", "rest", "top"}
       /\ at[r] = "slow" => kind = "slow"

Resolved ==
  \A r \in Readers : Going(r) =>
    /\ resolved[r] \in Times /\ end - Horizon <= resolved[r] /\ resolved[r] <= now
    /\ bounds[r] = BoundsAsked(r, resolved[r])

Compared ==
  \A r \in Readers : Going(r) /\ at[r] # "compare" /\ request[r].kind = "trend" =>
    \E w \in Times : /\ resolved[r] <= w /\ w <= now
                     /\ previous[r] = PreviousAsked(r, w)

(* What a statement kept is still there to be selected. *)
Kept ==
  \A r \in Readers :
    /\ at[r] \in {"idle", "queued", "begun", "compare"} => \A q \in Statements : rows[r][q] = {}
    /\ Going(r) /\ request[r].kind # "trend" => rows[r]["before"] = {}
    /\ Going(r) => /\ \A q \in Statements \ {"before"} : rows[r][q] \subseteq Selected(bounds[r])
                   /\ rows[r]["before"] \subseteq Selected(previous[r])

(* The statements that a request has behind it. *)
HasRead(r, q) ==
  \/ q = "summary" /\ request[r].kind # "top" /\ request[r].kind # "slow"
       /\ at[r] \in {"units", "revenue", "send", "before", "done"}
  \/ q = "units" /\ request[r].kind \in {"report", "rest", "top"}
       /\ at[r] \in {"revenue", "send", "done"}
  \/ q = "revenue" /\ request[r].kind \in {"report", "rest", "top"} /\ at[r] \in {"send", "done"}
  \/ q = "slow" /\ request[r].kind = "slow" /\ at[r] = "done"

(* A period that was over is still over, and its sales are those that were read. *)
Settled ==
  \A r \in Readers : Going(r) /\ "bounds" \in settled[r] =>
    /\ Over(bounds[r])
    /\ \A q \in Statements : HasRead(r, q) => rows[r][q] = Selected(bounds[r])

(* The statements are about the dates that were asked for, and of a period *)
(* that was over they have all of its sales.                               *)
SettledRows ==
  \A r \in Readers : at[r] = "done" /\ "bounds" \in settled[r] =>
    \A q \in Statements : HasRead(r, q) => rows[r][q] = SoldOn(LAMBDA d : AsksAbout(r, d))

ReportsInv ==
  /\ TypeOK /\ Timely /\ Routed /\ Resolved /\ Compared /\ Kept /\ FiguresGrow /\ Settled

LEMMA RequestFacts ==
  ASSUME TypeOK, NEW r \in Readers
  PROVE  /\ request[r] \in Requests
         /\ request[r].kind \in Tools \union {"report", "rest"}
         /\ request[r].kind = "rest" => \A d \in request[r].date : d \in Int
         /\ request[r].kind \in Tools => Wellformed(request[r].period)
         /\ request[r].kind = "trend" /\ request[r].comparison # {} =>
              Wellformed(Given(request[r].comparison))
<1>1. request[r] \in Requests
  BY DEF TypeOK
<1>2. ASSUME request[r].kind = "trend", request[r].comparison # {}
      PROVE  Wellformed(Given(request[r].comparison))
  <2>1. PICK p \in request[r].comparison : request[r].comparison = {p} /\ Wellformed(p)
    BY <1>1, <1>2, ReportsAssumption
  <2>2. Given(request[r].comparison) \in request[r].comparison
    BY <1>2 DEF Given
  <2> QED BY <2>1, <2>2
<1> QED BY <1>1, <1>2, ReportsAssumption

LEMMA ServerDateInt ==
  ASSUME NEW t \in Int
  PROVE  ServerDate(t) \in Int
BY CalendarAssumption DEF ServerDate

LEMMA DayAskedInt ==
  ASSUME TypeOK, NEW r \in Readers, request[r].kind = "rest", NEW t \in Int
  PROVE  DayAsked(r, t) \in Int
<1>1. ServerDate(t) \in Int
  BY ServerDateInt
<1>2. request[r].date # {} => Given(request[r].date) \in request[r].date
  BY DEF Given
<1> QED BY <1>1, <1>2, RequestFacts DEF DayAsked

LEMMA AskedWhole ==
  ASSUME TypeOK, NEW r \in Readers, NEW t \in Times
  PROVE  WholeDays(BoundsAsked(r, t)) /\ BoundsAsked(r, t) \in Bounds
<1>1. t \in Int
  BY ReportsAssumption DEF Times
<1>2. WholeDays(BoundsAsked(r, t))
  <2>1. CASE request[r].kind = "report"
    <3>1. ServerDate(t) \in Int
      BY <1>1, ServerDateInt
    <3> QED BY <2>1, <3>1, DayBoundsWhole DEF BoundsAsked
  <2>2. CASE request[r].kind = "rest"
    BY <1>1, <2>2, DayAskedInt, DayBoundsWhole DEF BoundsAsked
  <2>3. CASE request[r].kind \notin {"report", "rest"}
    <3>1. Wellformed(request[r].period)
      BY <2>3, RequestFacts
    <3> QED BY <2>3, <3>1, PeriodWhole DEF BoundsAsked
  <2> QED BY <2>1, <2>2, <2>3
<1> QED BY <1>2, WholeDaysFacts

LEMMA ComparedWhole ==
  ASSUME TypeOK, NEW r \in Readers, NEW t \in Times, request[r].kind = "trend"
  PROVE  WholeDays(PreviousAsked(r, t)) /\ PreviousAsked(r, t) \in Bounds
<1>1. WholeDays(PreviousAsked(r, t))
  <2>1. Wellformed(request[r].period)
    BY RequestFacts DEF Tools
  <2>2. CASE request[r].comparison = {}
    BY <2>1, <2>2, PreviousWhole DEF PreviousAsked
  <2>3. CASE request[r].comparison # {}
    BY <2>3, RequestFacts, PeriodWhole DEF PreviousAsked
  <2> QED BY <2>2, <2>3
<1> QED BY <1>1, WholeDaysFacts

-----------------------------------------------------------------------------
(* Every action keeps the invariant.                                       *)

LEMMA InitInv ==
  Init => ReportsInv
<1> SUFFICES ASSUME Init PROVE ReportsInv
  OBVIOUS
<1>1. Beginnings \subseteq Int /\ Horizon \in Nat
  BY ReportsAssumption
<1>2. now \in Int /\ end \in Int /\ now <= end /\ now \in Beginnings /\ end = now + Horizon
  BY <1>1 DEF Init
<1>3. TypeOK
  BY <1>2 DEF Init, TypeOK, Places, Statements, Bounds, Nowhere
<1> QED BY <1>2, <1>3 DEF Init, ReportsInv, Timely, Routed, Resolved, Compared, Kept,
    FiguresGrow, Settled, Going, Statements

LEMMA ClockTimes ==
  ASSUME Timely
  PROVE  /\ Times \subseteq Int /\ Horizon \in Nat
         /\ now \in Times /\ now \in Int /\ end \in Int
         /\ end - Horizon <= now /\ now <= end
<1>1. Beginnings \subseteq Int /\ Horizon \in Nat
  BY ReportsAssumption
<1>2. PICK b \in Beginnings : end = b + Horizon /\ now \in b..end
  BY DEF Timely
<1> QED BY <1>1, <1>2 DEF Times

LEMMA TickKeeps ==
  ASSUME ReportsInv, Tick
  PROVE  ReportsInv'
<1> USE DEF ReportsInv, Tick, table, reader
<1>1. Horizon \in Nat /\ Beginnings \subseteq Int /\ Times \subseteq Int
  BY ReportsAssumption DEF Times
<1>2. now \in Int /\ end \in Int /\ now' = now + 1 /\ end' = end /\ now + 1 <= end
  BY DEF TypeOK
<1>3. TypeOK'
  BY <1>2 DEF TypeOK
<1>4. Timely'
  <2>1. \E b \in Beginnings : end' = b + Horizon /\ now' \in b..end'
    BY <1>1, <1>2 DEF Timely
  <2>2. \A s \in Sales : stage[s] # "none" => stamp[s] <= now'
    BY <1>1, <1>2 DEF Timely, TypeOK
  <2> QED BY <2>1, <2>2 DEF Timely
<1>5. Routed'
  BY DEF Routed
<1>6. Resolved' /\ Compared'
  BY <1>1, <1>2 DEF Resolved, Compared, Going, BoundsAsked, DayAsked, PreviousAsked
<1>7. Kept' /\ FiguresGrow'
  BY DEF Kept, FiguresGrow, Going, Selected
<1>8. Settled'
  <2> SUFFICES ASSUME NEW r \in Readers, Going(r), "bounds" \in settled[r]
               PROVE  /\ Over(bounds[r])'
                      /\ \A q \in Statements : HasRead(r, q)' => rows[r][q] = Selected(bounds[r])
    BY DEF Settled, Going, Selected
  <2>1. bounds[r].end \in Int
    BY DEF TypeOK, Bounds
  <2> QED BY <1>2, <2>1 DEF Settled, Over, HasRead
<1> QED BY <1>3, <1>4, <1>5, <1>6, <1>7, <1>8

LEMMA InsertSaleKeeps ==
  ASSUME ReportsInv, NEW s \in Sales, InsertSale(s)
  PROVE  ReportsInv'
<1> USE DEF ReportsInv, InsertSale, clock, reader
<1>1. now \in Int /\ now \in Times /\ Times \subseteq Int
  BY ClockTimes
<1>2. TypeOK'
  BY DEF TypeOK
<1>3. Timely'
  <2>1. \E b \in Beginnings : end' = b + Horizon /\ now' \in b..end'
    BY DEF Timely
  <2>2. \A x \in Sales : stage'[x] # "none" => stamp'[x] \in Times /\ stamp'[x] <= now'
    BY <1>1 DEF Timely, TypeOK
  <2> QED BY <2>1, <2>2 DEF Timely
<1>4. Routed'
  BY DEF Routed
<1>5. Resolved' /\ Compared'
  BY DEF Resolved, Compared, Going, BoundsAsked, DayAsked, PreviousAsked
<1>6. \A b : Selected(b)' = Selected(b)
  BY DEF Selected, TypeOK
<1>7. Kept' /\ FiguresGrow'
  BY <1>6 DEF Kept, FiguresGrow, Going, Selected, TypeOK
<1>8. Settled'
  <2> SUFFICES ASSUME NEW r \in Readers, Going(r), "bounds" \in settled[r]
               PROVE  /\ Over(bounds[r])'
                      /\ \A q \in Statements :
                           HasRead(r, q)' => rows[r][q] = Selected(bounds[r])'
    BY DEF Settled, Going, Selected
  <2>1. bounds[r].end \in Int /\ bounds[r].start \in Int
    BY DEF TypeOK, Bounds
  <2>2. Over(bounds[r])
    BY DEF Settled
  <2>3. ~ InBounds(bounds[r], now)
    BY <1>1, <2>1, <2>2 DEF Over, InBounds
  <2>4. Over(bounds[r])'
    BY <2>2, <2>3 DEF Over, InBounds, TypeOK
  <2>5. Selected(bounds[r])' = Selected(bounds[r])
    BY DEF Selected, TypeOK
  <2> QED BY <2>4, <2>5 DEF Settled, HasRead
<1> QED BY <1>2, <1>3, <1>4, <1>5, <1>7, <1>8

LEMMA EndSaleKeeps ==
  ASSUME ReportsInv, NEW s \in Sales, EndSale(s)
  PROVE  ReportsInv'
<1> USE DEF ReportsInv, EndSale, clock, reader
<1>1. PICK outcome \in {"committed", "aborted"} : stage' = [stage EXCEPT ![s] = outcome]
  OBVIOUS
<1>2. TypeOK'
  BY <1>1 DEF TypeOK
<1>3. Timely'
  <2>1. \E b \in Beginnings : end' = b + Horizon /\ now' \in b..end'
    BY DEF Timely
  <2>2. \A x \in Sales : stage'[x] # "none" => stamp'[x] \in Times /\ stamp'[x] <= now'
    BY <1>1 DEF Timely, TypeOK
  <2> QED BY <2>1, <2>2 DEF Timely
<1>4. Routed'
  BY DEF Routed
<1>5. Resolved' /\ Compared'
  BY DEF Resolved, Compared, Going, BoundsAsked, DayAsked, PreviousAsked
<1>6. Kept' /\ FiguresGrow'
  BY <1>1 DEF Kept, FiguresGrow, Going, Selected, TypeOK
<1>7. Settled'
  <2> SUFFICES ASSUME NEW r \in Readers, Going(r), "bounds" \in settled[r]
               PROVE  /\ Over(bounds[r])'
                      /\ \A q \in Statements :
                           HasRead(r, q)' => rows[r][q] = Selected(bounds[r])'
    BY DEF Settled, Going, Selected
  <2>1. Over(bounds[r])
    BY DEF Settled
  <2>2. ~ InBounds(bounds[r], stamp[s])
    BY <2>1 DEF Over
  <2>3. Over(bounds[r])'
    BY <1>1, <2>1 DEF Over, InBounds, TypeOK
  <2>4. Selected(bounds[r])' = Selected(bounds[r])
    BY <1>1, <2>2 DEF Selected, TypeOK, InBounds
  <2> QED BY <2>3, <2>4 DEF Settled, HasRead
<1> QED BY <1>2, <1>3, <1>4, <1>5, <1>6, <1>7

(* What only moves one request on, and takes no reading with it. *)
LEMMA AskKeeps ==
  ASSUME ReportsInv, NEW r \in Readers, Ask(r)
  PROVE  ReportsInv'
<1> USE DEF ReportsInv, Ask, Goto, clock, table
<1>1. request[r].kind \in Tools \union {"report", "rest"}
  BY RequestFacts
<1>2. TypeOK'
  BY DEF TypeOK, Places
<1>3. Timely' /\ Routed'
  BY <1>1 DEF Timely, Routed, TypeOK
<1>4. Resolved' /\ Compared'
  BY DEF Resolved, Compared, Going, BoundsAsked, DayAsked, PreviousAsked, TypeOK
<1>5. Kept' /\ FiguresGrow' /\ Settled'
  BY DEF Kept, FiguresGrow, Settled, Going, Selected, Over, HasRead, TypeOK
<1> QED BY <1>2, <1>3, <1>4, <1>5

LEMMA FailKeeps ==
  ASSUME ReportsInv, NEW r \in Readers, Fail(r)
  PROVE  ReportsInv'
<1> USE DEF ReportsInv, Fail, Goto, clock, table
<1>1. TypeOK'
  BY DEF TypeOK, Places
<1>2. Timely' /\ Routed'
  BY DEF Timely, Routed, TypeOK
<1>3. Resolved' /\ Compared'
  BY DEF Resolved, Compared, Going, BoundsAsked, DayAsked, PreviousAsked, TypeOK
<1>4. Kept' /\ FiguresGrow' /\ Settled'
  BY DEF Kept, FiguresGrow, Settled, Going, Selected, Over, HasRead, TypeOK
<1> QED BY <1>1, <1>2, <1>3, <1>4

LEMMA SendKeeps ==
  ASSUME ReportsInv, NEW r \in Readers, Send(r)
  PROVE  ReportsInv'
<1> USE DEF ReportsInv, Send, Goto, clock, table
<1>1. request[r].kind = "report"
  BY DEF Routed
<1>2. TypeOK'
  BY DEF TypeOK, Places
<1>3. Timely' /\ Routed'
  BY DEF Timely, Routed, TypeOK
<1>4. Resolved' /\ Compared'
  BY <1>1 DEF Resolved, Compared, Going, BoundsAsked, DayAsked, PreviousAsked, TypeOK
<1>5. Kept' /\ FiguresGrow'
  BY DEF Kept, FiguresGrow, Going, Selected, TypeOK
<1>6. Settled'
  BY <1>1 DEF Settled, Going, Selected, Over, HasRead, TypeOK
<1> QED BY <1>2, <1>3, <1>4, <1>5, <1>6

(***************************************************************************)
(* A request that takes the clock has kept nothing yet, and its period is  *)
(* the one that is asked for at this moment.                               *)
(***************************************************************************)
LEMMA ResolveKeeps ==
  ASSUME ReportsInv, NEW r \in Readers,
         at[r] \in {"queued", "begun"},
         NEW place \in {"summary", "units", "slow", "compare"},
         Resolve(r, BoundsAsked(r, now), place),
         place = "summary" => request[r].kind \in {"report", "rest", "summary"},
         place = "units" => request[r].kind = "top",
         place = "slow" => request[r].kind = "slow",
         place = "compare" => request[r].kind = "trend"
  PROVE  ReportsInv'
<1> DEFINE b == BoundsAsked(r, now)
<1> USE DEF ReportsInv, Goto, clock, table
<1>1. /\ now \in Times /\ now \in Int /\ end \in Int /\ end - Horizon <= now
      /\ Horizon \in Nat
  BY ClockTimes
<1>2. b \in Bounds
  BY <1>1, AskedWhole
<1>3. /\ resolved' = [resolved EXCEPT ![r] = now]
      /\ bounds' = [bounds EXCEPT ![r] = b]
      /\ settled' = [settled EXCEPT ![r] = IF Over(b) THEN {"bounds"} ELSE {}]
      /\ at' = [at EXCEPT ![r] = place]
      /\ UNCHANGED <<now, end, stage, stamp, request, previous, rows>>
  BY DEF Resolve
<1>4. /\ at \in [Readers -> Places]
      /\ resolved \in [Readers -> Int] /\ bounds \in [Readers -> Bounds]
      /\ settled \in [Readers -> SUBSET {"bounds", "previous"}]
  BY DEF TypeOK
<1>5. BoundsAsked(r, now) = b
  OBVIOUS
<1> HIDE DEF b
<1>6. TypeOK'
  BY <1>1, <1>2, <1>3 DEF TypeOK, Places, Statements
<1>7. Timely' /\ Routed'
  BY <1>3, <1>4 DEF Timely, Routed
<1>8. Resolved'
  <2> SUFFICES ASSUME NEW x \in Readers, Going(x)'
               PROVE  /\ resolved'[x] \in Times /\ end - Horizon <= resolved'[x]
                      /\ resolved'[x] <= now
                      /\ bounds'[x] = BoundsAsked(x, resolved'[x])
    BY <1>3 DEF Resolved, BoundsAsked, DayAsked
  <2>1. CASE x = r
    BY <1>1, <1>3, <1>4, <1>5, <2>1
  <2>2. CASE x # r
    BY <1>3, <1>4, <2>2 DEF Resolved, Going
  <2> QED BY <2>1, <2>2
<1>9. Compared'
  BY <1>3, <1>4 DEF Compared, Going, PreviousAsked
<1>10. \A q \in Statements : rows[r][q] = {}
  BY DEF Kept
<1>11. Kept'
  BY <1>3, <1>4, <1>10 DEF Kept, Going, Selected, Statements
<1>12. FiguresGrow'
  BY <1>3, <1>4, <1>10 DEF FiguresGrow, Statements
<1>13. Settled'
  <2> SUFFICES ASSUME NEW x \in Readers, Going(x)', "bounds" \in settled'[x]
               PROVE  /\ Over(bounds'[x])
                      /\ \A q \in Statements :
                           HasRead(x, q)' => rows[x][q] = Selected(bounds'[x])
    BY <1>3 DEF Settled, Over, Selected
  <2>1. CASE x = r
    BY <1>3, <1>4, <2>1 DEF HasRead
  <2>2. CASE x # r
    BY <1>3, <1>4, <2>2 DEF Settled, Going, HasRead
  <2> QED BY <2>1, <2>2
<1> QED BY <1>6, <1>7, <1>8, <1>9, <1>11, <1>12, <1>13

LEMMA TakeReportKeeps ==
  ASSUME ReportsInv, NEW r \in Readers, TakeReport(r)
  PROVE  ReportsInv'
<1>1. at[r] = "queued" /\ request[r].kind = "report"
  BY DEF TakeReport, ReportsInv, Routed
<1>2. BoundsAsked(r, now) = DayBounds(ServerDate(now))
  BY <1>1 DEF BoundsAsked
<1>3. Resolve(r, BoundsAsked(r, now), "summary")
  BY <1>2 DEF TakeReport
<1> QED BY <1>1, <1>3, ResolveKeeps

LEMMA BeginSummaryKeeps ==
  ASSUME ReportsInv, NEW r \in Readers, BeginSummary(r)
  PROVE  ReportsInv'
<1>1. at[r] = "begun" /\ request[r].kind = "rest"
  BY DEF BeginSummary
<1>2. BoundsAsked(r, now) = DayBounds(DayAsked(r, now))
  BY <1>1 DEF BoundsAsked
<1>3. Resolve(r, BoundsAsked(r, now), "summary")
  BY <1>2 DEF BeginSummary
<1> QED BY <1>1, <1>3, ResolveKeeps

LEMMA BeginToolKeeps ==
  ASSUME ReportsInv, NEW r \in Readers, BeginTool(r)
  PROVE  ReportsInv'
<1> DEFINE place == AfterResolving[request[r].kind]
<1>1. at[r] = "begun" /\ request[r].kind \in {"summary", "top", "slow", "trend"}
  BY DEF BeginTool, Tools
<1>2. BoundsAsked(r, now) = PeriodBounds(request[r].period, now)
  BY <1>1 DEF BoundsAsked
<1>3. Resolve(r, BoundsAsked(r, now), place)
  BY <1>2 DEF BeginTool
<1>4. /\ place \in {"summary", "units", "slow", "compare"}
      /\ place = "summary" => request[r].kind = "summary"
      /\ place = "units" => request[r].kind = "top"
      /\ place = "slow" => request[r].kind = "slow"
      /\ place = "compare" => request[r].kind = "trend"
  BY <1>1 DEF AfterResolving
<1> HIDE DEF place
<1> QED BY <1>1, <1>3, <1>4, ResolveKeeps

LEMMA CompareKeeps ==
  ASSUME ReportsInv, NEW r \in Readers, Compare(r)
  PROVE  ReportsInv'
<1> DEFINE b == PreviousAsked(r, now)
<1> USE DEF ReportsInv, Goto, clock, table
<1>1. now \in Times /\ now \in Int
  BY ClockTimes
<1>2. at[r] = "compare" /\ request[r].kind = "trend"
  BY DEF Compare, Routed
<1>3. b \in Bounds
  BY <1>1, <1>2, ComparedWhole
<1>4. /\ previous' = [previous EXCEPT ![r] = b]
      /\ at' = [at EXCEPT ![r] = "summary"]
      /\ settled' = [settled EXCEPT ![r] = @ \union IF Over(b) THEN {"previous"} ELSE {}]
      /\ UNCHANGED <<now, end, stage, stamp, request, resolved, bounds, rows>>
  BY DEF Compare, PreviousAsked
<1>5. /\ at \in [Readers -> Places] /\ previous \in [Readers -> Bounds]
      /\ settled \in [Readers -> SUBSET {"bounds", "previous"}]
  BY DEF TypeOK
<1>6. PreviousAsked(r, now) = b
  OBVIOUS
<1> HIDE DEF b
<1>7. TypeOK'
  BY <1>3, <1>4 DEF TypeOK, Places, Statements
<1>8. Timely' /\ Routed'
  BY <1>2, <1>4, <1>5 DEF Timely, Routed
<1>9. Resolved'
  BY <1>2, <1>4, <1>5 DEF Resolved, Going, BoundsAsked, DayAsked
<1>10. Compared'
  <2> SUFFICES ASSUME NEW x \in Readers, Going(x)', at'[x] # "compare", request[x].kind = "trend"
               PROVE  \E w \in Times : /\ resolved[x] <= w /\ w <= now
                                       /\ previous'[x] = PreviousAsked(x, w)
    BY <1>4 DEF Compared, PreviousAsked
  <2>1. CASE x = r
    <3>1. Going(r) /\ resolved[r] <= now
      BY <1>2 DEF Going, Resolved
    <3>2. previous'[r] = PreviousAsked(r, now)
      BY <1>4, <1>5, <1>6
    <3> QED BY <1>1, <2>1, <3>1, <3>2
  <2>2. CASE x # r
    BY <1>4, <1>5, <2>2 DEF Compared, Going
  <2> QED BY <2>1, <2>2
<1>11. \A q \in Statements : rows[r][q] = {}
  BY <1>2 DEF Kept
<1>12. Kept'
  BY <1>2, <1>4, <1>5, <1>11 DEF Kept, Going, Selected, Statements
<1>13. FiguresGrow'
  BY <1>4, <1>5 DEF FiguresGrow
<1>14. Settled'
  <2> SUFFICES ASSUME NEW x \in Readers, Going(x)', "bounds" \in settled'[x]
               PROVE  /\ Over(bounds[x])
                      /\ \A q \in Statements :
                           HasRead(x, q)' => rows[x][q] = Selected(bounds[x])
    BY <1>4 DEF Settled, Over, Selected
  <2>1. Going(x) /\ "bounds" \in settled[x]
    BY <1>2, <1>4, <1>5 DEF Going
  <2>2. \A q \in Statements : HasRead(x, q)' => HasRead(x, q)
    BY <1>4, <1>5 DEF HasRead
  <2> QED BY <2>1, <2>2 DEF Settled
<1> QED BY <1>7, <1>8, <1>9, <1>10, <1>12, <1>13, <1>14

LEMMA QueryKeeps ==
  ASSUME ReportsInv, NEW r \in Readers, Query(r)
  PROVE  ReportsInv'
<1> DEFINE q == at[r]
           next == AfterStatement(r)
           b == IF q = "before" THEN previous[r] ELSE bounds[r]
<1> USE DEF ReportsInv, Goto, clock, table
<1>1. /\ q \in Statements
      /\ rows' = [rows EXCEPT ![r][q] = Selected(b)]
      /\ at' = [at EXCEPT ![r] = next]
      /\ UNCHANGED <<now, end, stage, stamp, request, resolved, bounds, previous, settled>>
  BY DEF Query, Select
<1>2. /\ at \in [Readers -> Places]
      /\ rows \in [Readers -> [Statements -> SUBSET Sales]]
  BY DEF TypeOK
<1>3. request[r].kind \in Tools \union {"report", "rest"}
  BY RequestFacts
<1>4. /\ q = "summary" => request[r].kind \in {"report", "rest", "summary", "trend"}
      /\ q \in {"units", "revenue"} => request[r].kind \in {"report", "rest", "top"}
      /\ q = "slow" => request[r].kind = "slow"
      /\ q = "before" => request[r].kind = "trend"
  BY DEF Routed
<1>5. /\ q = "summary" /\ request[r].kind \in {"report", "rest"} => next = "units"
      /\ q = "summary" /\ request[r].kind = "trend" => next = "before"
      /\ q = "summary" /\ request[r].kind = "summary" => next = "done"
      /\ q = "units" => next = "revenue"
      /\ q = "revenue" /\ request[r].kind = "report" => next = "send"
      /\ q = "revenue" /\ request[r].kind # "report" => next = "done"
      /\ q \in {"slow", "before"} => next = "done"
  BY DEF AfterStatement
<1>6. Selected(b) \subseteq Sales
  BY DEF Selected
<1>7. /\ rows'[r][q] = Selected(b)
      /\ \A x \in Statements : x # q => rows'[r][x] = rows[r][x]
      /\ \A y \in Readers : y # r => rows'[y] = rows[y]
  BY <1>1, <1>2
<1>8. Going(r) /\ at'[r] = next /\ (q # "before" => b = bounds[r])
  BY <1>1, <1>2 DEF Going, Statements
<1>9. q = "before" => b = previous[r]
  OBVIOUS
<1>10. at[r] = q
  OBVIOUS
<1> HIDE DEF q, next, b
<1>11. next \in {"units", "before", "done", "revenue", "send"}
  BY <1>1, <1>4, <1>5 DEF Statements
<1>12. TypeOK'
  BY <1>1, <1>6, <1>10, <1>11 DEF TypeOK, Places, Statements
<1>13. Timely' /\ Routed'
  BY <1>1, <1>2, <1>4, <1>5 DEF Timely, Routed, Statements
<1>14. \A x \in Readers : Going(x)' => Going(x) /\ (at[x] = "compare" => at'[x] = "compare")
  BY <1>1, <1>2, <1>8, <1>10 DEF Going, Statements
<1>15. Resolved' /\ Compared'
  BY <1>1, <1>14 DEF Resolved, Compared, BoundsAsked, DayAsked, PreviousAsked
<1>16. \A c : Selected(c)' = Selected(c)
  BY <1>1 DEF Selected
<1>17. Kept'
  <2> SUFFICES ASSUME NEW x \in Readers
               PROVE  /\ at'[x] \in {"idle", "queued", "begun", "compare"} =>
                           \A p \in Statements : rows'[x][p] = {}
                      /\ Going(x)' /\ request[x].kind # "trend" => rows'[x]["before"] = {}
                      /\ Going(x)' => /\ \A p \in Statements \ {"before"} :
                                          rows'[x][p] \subseteq Selected(bounds[x])
                                      /\ rows'[x]["before"] \subseteq Selected(previous[x])
    BY <1>1, <1>16 DEF Kept
  <2>1. CASE x = r
    BY <1>1, <1>4, <1>7, <1>8, <1>9, <1>10, <1>11, <2>1 DEF Kept, Statements
  <2>2. CASE x # r
    BY <1>1, <1>2, <1>7, <1>14, <2>2 DEF Kept
  <2> QED BY <2>1, <2>2
<1>18. FiguresGrow'
  <2> SUFFICES ASSUME NEW x \in Readers
               PROVE  /\ at'[x] \in {"revenue", "send", "done"}
                           /\ request[x].kind \in {"report", "rest"} =>
                           rows'[x]["summary"] \subseteq rows'[x]["units"]
                      /\ at'[x] \in {"send", "done"}
                           /\ request[x].kind \in {"report", "rest", "top"} =>
                           rows'[x]["units"] \subseteq rows'[x]["revenue"]
    BY <1>1 DEF FiguresGrow
  <2>1. CASE x = r
    <3>1. rows[r]["summary"] \subseteq Selected(bounds[r])
            /\ rows[r]["units"] \subseteq Selected(bounds[r])
      BY <1>8 DEF Kept, Statements
    <3> QED BY <1>1, <1>4, <1>5, <1>7, <1>8, <1>10, <2>1, <3>1 DEF FiguresGrow, Statements
  <2>2. CASE x # r
    BY <1>1, <1>2, <1>7, <2>2 DEF FiguresGrow
  <2> QED BY <2>1, <2>2
<1>19. Settled'
  <2> SUFFICES ASSUME NEW x \in Readers, Going(x)', "bounds" \in settled[x]
               PROVE  /\ Over(bounds[x])
                      /\ \A p \in Statements :
                           HasRead(x, p)' => rows'[x][p] = Selected(bounds[x])
    BY <1>1, <1>16 DEF Settled, Over
  <2>1. Over(bounds[x])
    BY <1>14 DEF Settled
  <2>2. CASE x = r
    <3> SUFFICES ASSUME NEW p \in Statements, HasRead(r, p)'
                 PROVE  rows'[r][p] = Selected(bounds[r])
      BY <2>1, <2>2
    <3>1. p # q => HasRead(r, p)
      BY <1>1, <1>4, <1>5, <1>8, <1>10 DEF HasRead, Statements
    <3>2. p # "before"
      BY DEF HasRead
    <3> QED BY <1>7, <1>8, <2>2, <3>1, <3>2 DEF Settled
  <2>3. CASE x # r
    <3>1. \A p \in Statements : HasRead(x, p)' => HasRead(x, p)
      BY <1>1, <1>2, <2>3 DEF HasRead
    <3> QED BY <1>7, <1>14, <2>1, <2>3, <3>1 DEF Settled
  <2> QED BY <2>2, <2>3
<1> QED BY <1>12, <1>13, <1>15, <1>17, <1>18, <1>19

LEMMA StutterKeeps ==
  ASSUME ReportsInv, UNCHANGED vars
  PROVE  ReportsInv'
<1> USE DEF ReportsInv, vars, clock, table, reader
<1>1. TypeOK' /\ Timely' /\ Routed' /\ FiguresGrow'
  BY DEF TypeOK, Timely, Routed, FiguresGrow
<1>2. Resolved' /\ Compared'
  BY DEF Resolved, Compared, Going, BoundsAsked, DayAsked, PreviousAsked
<1>3. Kept' /\ Settled'
  BY DEF Kept, Settled, Going, Selected, Over, HasRead
<1> QED BY <1>1, <1>2, <1>3

(* The requests, the sales and the clock of Reports keep ReportsInv. *)
THEOREM ReportsInductive == Spec => []ReportsInv
<1>1. ASSUME ReportsInv, [Next]_vars
      PROVE  ReportsInv'
  BY <1>1, TickKeeps, InsertSaleKeeps, EndSaleKeeps, AskKeeps, TakeReportKeeps,
     BeginSummaryKeeps, BeginToolKeeps, CompareKeeps, QueryKeeps, SendKeeps, FailKeeps,
     StutterKeeps DEF Next, Serve
<1> QED BY <1>1, InitInv, PTL DEF Spec

-----------------------------------------------------------------------------
(* What follows from it.                                                   *)

(* The bounds of a reading are those of the dates that are asked about. *)
LEMMA BoundsOfDates ==
  ASSUME ReportsInv, NEW r \in Readers, Going(r), NEW x \in Times
  PROVE  InBounds(bounds[r], x) <=> AsksAbout(r, LocalDate(x))
<1> USE DEF ReportsInv
<1> DEFINE t == resolved[r]
           b == BoundsAsked(r, t)
           e == LocalDate(x)
           kind == request[r].kind
<1>1. t \in Times /\ t \in Int /\ bounds[r] = b
  BY ClockTimes DEF Resolved
<1>2. x \in Int /\ e \in Int
  BY ClockTimes, DateOf
<1>3. ASSUME NEW d \in Int
      PROVE  InBounds(DayBounds(d), x) <=> e = d
  <2>1. Midnight(d) <= x <=> d <= e
    BY <1>2, DayOfInstant
  <2>2. Midnight(d + 1) <= x <=> d + 1 <= e
    BY <1>2, DayOfInstant
  <2>3. Midnight(d + 1) \in Int
    BY MidnightOrder
  <2> HIDE DEF e
  <2> QED BY <1>2, <2>1, <2>2, <2>3 DEF InBounds, DayBounds
<1>4. CASE kind = "report"
  <2>1. ServerDate(t) \in Int
    BY <1>1, ServerDateInt
  <2> QED BY <1>1, <1>3, <1>4, <2>1 DEF BoundsAsked, AsksAbout
<1>5. CASE kind = "rest"
  <2>1. DayAsked(r, t) \in Int
    BY <1>1, <1>5, DayAskedInt
  <2> QED BY <1>1, <1>3, <1>5, <2>1 DEF BoundsAsked, AsksAbout
<1>6. CASE kind \notin {"report", "rest"}
  <2> DEFINE p == request[r].period
  <2>1. Wellformed(p)
    BY <1>6, RequestFacts
  <2>2. bounds[r] = PeriodBounds(p, t)
    BY <1>1, <1>6 DEF BoundsAsked
  <2>3. AsksAbout(r, e) <=> IF p.type = "relative" THEN SameUnit(p.unit, e, LocalDate(t))
                            ELSE p.first <= e /\ e <= p.last
    BY <1>6 DEF AsksAbout
  <2>4. CASE p.type = "relative"
    <3> DEFINE u == p.unit
               c == UnitBounds(u, LocalDate(t))
    <3>1. u \in Units
      BY <2>1, <2>4 DEF Wellformed
    <3>2. LocalDate(t) \in Dates /\ e \in Dates /\ Covers(u, LocalDate(t))
      BY <1>1, <3>1, ClockDates DEF Covers
    <3>3. \A d \in Dates : FirstDate(c) <= d /\ d < NextDate(c) <=> SameUnit(u, d, LocalDate(t))
      BY <3>1, <3>2, UnitIsUnit
    <3>4. WholeDays(c)
      BY <3>1, <3>2, UnitDates DEF WholeDays
    <3>5. InBounds(c, x) <=> FirstDate(c) <= e /\ e < NextDate(c)
      BY <1>2, <3>4, WholeDaysFacts
    <3>6. bounds[r] = c
      BY <2>2, <2>4 DEF PeriodBounds
    <3> HIDE DEF c, e
    <3>7. InBounds(bounds[r], x) <=> AsksAbout(r, e)
      BY <2>3, <2>4, <3>2, <3>3, <3>5, <3>6
    <3> QED BY <3>7 DEF e
  <2>5. CASE p.type # "relative"
    <3>1. p.first \in Int /\ p.last \in Int /\ p.last + 1 \in Int
      BY <2>1, <2>5 DEF Wellformed
    <3>2. bounds[r] = [start |-> Midnight(p.first), end |-> Midnight(p.last + 1)]
      BY <2>2, <2>5 DEF PeriodBounds
    <3>3. Midnight(p.first) <= x <=> p.first <= e
      BY <1>2, <3>1, DayOfInstant
    <3>4. Midnight(p.last + 1) <= x <=> p.last + 1 <= e
      BY <1>2, <3>1, DayOfInstant
    <3>5. Midnight(p.last + 1) \in Int
      BY <3>1, MidnightOrder
    <3>6. InBounds(bounds[r], x) <=> p.first <= e /\ ~ (p.last + 1 <= e)
      <4>1. bounds[r].start = Midnight(p.first) /\ bounds[r].end = Midnight(p.last + 1)
        BY <3>2
      <4> HIDE DEF e, p
      <4> QED BY <1>2, <3>3, <3>4, <3>5, <4>1 DEF InBounds
    <3> HIDE DEF e, p
    <3>7. InBounds(bounds[r], x) <=> AsksAbout(r, e)
      BY <1>2, <2>3, <2>5, <3>1, <3>6
    <3> QED BY <3>7 DEF e
  <2> QED BY <2>4, <2>5
<1> QED BY <1>4, <1>5, <1>6

LEMMA SelectedAreSold ==
  ASSUME ReportsInv, NEW r \in Readers, Going(r)
  PROVE  Selected(bounds[r]) = SoldOn(LAMBDA d : AsksAbout(r, d))
<1>1. \A s \in Sales : stage[s] = "committed" => stamp[s] \in Times
  BY DEF ReportsInv, Timely
<1>2. \A s \in Sales : stage[s] = "committed" =>
        (InBounds(bounds[r], stamp[s]) <=> AsksAbout(r, LocalDate(stamp[s])))
  BY <1>1, BoundsOfDates
<1> QED BY <1>2 DEF Selected, SoldOn

(* Reports keeps its variables within their types. *)
THEOREM ReportsTyped == Spec => []TypeOK
<1>1. ReportsInv => TypeOK
  BY DEF ReportsInv
<1> QED BY <1>1, ReportsInductive, PTL

(***************************************************************************)
(* Whatever the total of get_daily_summary counts is in its rankings too,  *)
(* for any number of sales that are committed between its statements.      *)
(***************************************************************************)
THEOREM RankingsHaveTheTotal == Spec => []FiguresGrow
<1>1. ReportsInv => FiguresGrow
  BY DEF ReportsInv
<1> QED BY <1>1, ReportsInductive, PTL

(***************************************************************************)
(* resolve_period_boundaries gives a relative period the unit of the local *)
(* date, in any calendar of weeks, months and years and any time zone.     *)
(***************************************************************************)
THEOREM PeriodsAreUnits == Spec => []PeriodIsUnit
<1>1. ReportsInv => PeriodIsUnit
  <2> SUFFICES ASSUME ReportsInv, NEW r \in Readers, Going(r), request[r].kind \in Tools,
                      request[r].period.type = "relative"
               PROVE  IsUnitOf(bounds[r], request[r].period.unit, LocalDate(resolved[r]))
    BY DEF PeriodIsUnit
  <2> DEFINE u == request[r].period.unit
             d == LocalDate(resolved[r])
  <2>1. resolved[r] \in Times /\ bounds[r] = BoundsAsked(r, resolved[r])
    BY DEF ReportsInv, Resolved
  <2>2. u \in Units
    BY RequestFacts DEF ReportsInv, Wellformed
  <2>3. Covers(u, d)
    BY <2>1, <2>2, ClockDates
  <2>4. bounds[r] = UnitBounds(u, d)
    BY <2>1 DEF BoundsAsked, PeriodBounds, Tools
  <2> QED BY <2>2, <2>3, <2>4, UnitIsUnit
<1> QED BY <1>1, ReportsInductive, PTL

(***************************************************************************)
(* handle_get_sales_trend compares with the unit before, or with the range *)
(* of the same length before, as ADR 008 has it, unless the clock passes   *)
(* the end of the unit between its two readings.                           *)
(***************************************************************************)
THEOREM TrendsAdjoin == Spec => []PreviousAdjoins
<1>1. ReportsInv => PreviousAdjoins
  <2> SUFFICES ASSUME ReportsInv, NEW r \in Readers, Going(r), at[r] # "compare",
                      request[r].kind = "trend", request[r].comparison = {}
               PROVE  \/ /\ previous[r].end = bounds[r].start
                         /\ request[r].period.type = "relative" =>
                              IsUnitOf(previous[r], request[r].period.unit,
                                       LocalDate(previous[r].start))
                         /\ request[r].period.type = "date_range" =>
                              bounds[r].end - bounds[r].start
                                = previous[r].end - previous[r].start
                      \/ /\ request[r].period.type = "relative"
                         /\ previous[r] = bounds[r] /\ bounds[r].end <= now
    BY DEF PreviousAdjoins
  <2> DEFINE p == request[r].period
             t == resolved[r]
  <2>1. /\ t \in Times /\ end - Horizon <= t /\ bounds[r] = PeriodBounds(p, t)
    BY DEF ReportsInv, Resolved, BoundsAsked
  <2>2. PICK w \in Times : t <= w /\ w <= now /\ previous[r] = PreviousBounds(p, w)
    BY DEF ReportsInv, Compared, PreviousAsked
  <2>3. Wellformed(p)
    BY RequestFacts DEF ReportsInv, Tools
  <2>4. /\ now \in Int /\ end \in Int /\ now <= end /\ Horizon \in Nat /\ t \in Int /\ w \in Int
    BY <2>1, ClockTimes DEF ReportsInv
  <2>5. bounds[r] \in Bounds /\ bounds[r].start \in Int /\ bounds[r].end \in Int
    BY DEF ReportsInv, TypeOK, Bounds
  <2>6. w <= t + Horizon
    BY <2>1, <2>2, <2>4
  <2>7. CASE p.type = "relative"
    <3>1. \/ /\ previous[r].end = bounds[r].start
             /\ IsUnitOf(previous[r], p.unit, LocalDate(previous[r].start))
          \/ previous[r] = bounds[r] /\ bounds[r].end <= w
      BY <2>1, <2>2, <2>3, <2>6, <2>7, PreviousOfUnit
    <3> QED BY <2>2, <2>4, <2>5, <2>7, <3>1
  <2>8. CASE p.type # "relative"
    <3>1. bounds[r] = PeriodBounds(p, w)
      BY <2>1, <2>8 DEF PeriodBounds
    <3>2. previous[r] = [start |-> bounds[r].start - (bounds[r].end - bounds[r].start),
                         end   |-> bounds[r].start]
      BY <2>2, <2>8, <3>1 DEF PreviousBounds
    <3>3. previous[r].start = bounds[r].start - (bounds[r].end - bounds[r].start)
            /\ previous[r].end = bounds[r].start
      BY <3>2
    <3> HIDE DEF p
    <3> QED BY <2>5, <2>8, <3>3 DEF p
  <2> QED BY <2>7, <2>8
<1> QED BY <1>1, ReportsInductive, PTL

(***************************************************************************)
(* No answer of the worker, the route or a tool has a sale of a date that  *)
(* was not asked about.                                                    *)
(***************************************************************************)
THEOREM OnlyItsDates == Spec => []NothingForeign
<1>1. ReportsInv => NothingForeign
  <2> SUFFICES ASSUME ReportsInv, NEW r \in Readers, Going(r)
               PROVE  /\ \A q \in Statements \ {"before"} :
                           rows[r][q] \subseteq SoldOn(LAMBDA d : AsksAbout(r, d))
                      /\ rows[r]["before"] \subseteq
                           SoldOn(LAMBDA d : FirstDate(previous[r]) <= d
                                             /\ d < NextDate(previous[r]))
    BY DEF NothingForeign
  <2>1. \A q \in Statements \ {"before"} :
          rows[r][q] \subseteq SoldOn(LAMBDA d : AsksAbout(r, d))
    BY SelectedAreSold DEF ReportsInv, Kept, SoldOn
  <2>2. CASE request[r].kind # "trend" \/ at[r] = "compare"
    <3>1. rows[r]["before"] = {}
      BY <2>2 DEF ReportsInv, Kept, Statements
    <3> QED BY <2>1, <3>1
  <2>3. CASE request[r].kind = "trend" /\ at[r] # "compare"
    <3>1. WholeDays(previous[r])
      <4>1. PICK w \in Times : previous[r] = PreviousAsked(r, w)
        BY <2>3 DEF ReportsInv, Compared
      <4> QED BY <2>3, <4>1, ComparedWhole DEF ReportsInv
    <3>2. \A s \in Sales : stage[s] = "committed" => stamp[s] \in Int
      BY DEF ReportsInv, TypeOK
    <3>3. \A s \in Selected(previous[r]) :
            /\ FirstDate(previous[r]) <= LocalDate(stamp[s])
            /\ LocalDate(stamp[s]) < NextDate(previous[r])
      BY <3>1, <3>2, WholeDaysFacts DEF Selected
    <3>4. rows[r]["before"] \subseteq Selected(previous[r])
      BY DEF ReportsInv, Kept
    <3>5. Selected(previous[r]) \subseteq {s \in Sales : stage[s] = "committed"}
      BY DEF Selected
    <3> QED BY <2>1, <3>3, <3>4, <3>5 DEF SoldOn
  <2> QED BY <2>2, <2>3
<1> QED BY <1>1, ReportsInductive, PTL

(***************************************************************************)
(* The statements about a period that was over when it was resolved have   *)
(* exactly the sales of its local dates, as of the answer: what            *)
(* SettledIsExact says of the figures, said of the rows they are made of.  *)
(***************************************************************************)
THEOREM SettledReadsAll == Spec => []SettledRows
<1>1. ReportsInv => SettledRows
  <2> SUFFICES ASSUME ReportsInv, NEW r \in Readers, at[r] = "done", "bounds" \in settled[r],
                      NEW q \in Statements, HasRead(r, q)
               PROVE  rows[r][q] = SoldOn(LAMBDA d : AsksAbout(r, d))
    BY DEF SettledRows
  <2>1. Going(r)
    BY DEF Going
  <2>2. rows[r][q] = Selected(bounds[r])
    BY <2>1 DEF ReportsInv, Settled
  <2> QED BY <2>1, <2>2, SelectedAreSold
<1> QED BY <1>1, ReportsInductive, PTL
-----------------------------------------------------------------------------
(* The figures: sums, rankings and a limit *)

(* What each sale brings. *)
Values == [s \in Sales |-> Quantity[s] * Price[s]]

LEMMA UnitsAreSum ==
  ASSUME NEW S, NEW p
  PROVE  UnitsSold(S, p) = Sum(Quantity, {s \in S : Product[s] = p})
BY DEF UnitsSold, Sum

(* What MapThenSumSet computes of the revenues is their sum. *)
LEMMA ValuesSum ==
  ASSUME NEW S \in SUBSET Sales
  PROVE  MapThenSumSet(LAMBDA s : Quantity[s] * Price[s], S) = Sum(Values, S)
<1> DEFINE R(g) == g = [T \in SUBSET S |->
                          IF T = {} THEN 0
                          ELSE Quantity[Pick(T)] * Price[Pick(T)] + g[T \ {Pick(T)}]]
           h == CHOOSE g : R(g)
<1>1. MapThenSumSet(LAMBDA s : Quantity[s] * Price[s], S) = h[S]
  BY DEF MapThenSumSet, MapThenFoldSet, Pick
<1>2. IsFiniteSet(S)
  BY ReportsAssumption, FS_Subset
<1>3. ASSUME NEW g PROVE R(g) <=> Sums(g, Values, S)
  <2>1. \A T \in SUBSET S :
          T # {} => Values[Pick(T)] = Quantity[Pick(T)] * Price[Pick(T)]
    <3> SUFFICES ASSUME NEW T \in SUBSET S, T # {}
                 PROVE  Values[Pick(T)] = Quantity[Pick(T)] * Price[Pick(T)]
      OBVIOUS
    <3>1. Pick(T) \in Sales
      BY PickIsElement
    <3> QED BY <3>1 DEF Values
  <2>2. [T \in SUBSET S |-> IF T = {} THEN 0
                            ELSE Quantity[Pick(T)] * Price[Pick(T)] + g[T \ {Pick(T)}]]
          = [T \in SUBSET S |-> IF T = {} THEN 0
                                ELSE Values[Pick(T)] + g[T \ {Pick(T)}]]
    BY <2>1
  <2> QED BY <2>2 DEF Sums
<1>4. R(SumOf(Values, S))
  BY <1>2, <1>3, SumsExist
<1>5. R(h)
  BY <1>4
<1> HIDE DEF R, h
<1> QED BY <1>1, <1>2, <1>3, <1>5, SumsOnce

(* What a product sold and earned are numbers. *)
LEMMA FiguresType ==
  ASSUME NEW S \in SUBSET Sales, NEW p
  PROVE  UnitsSold(S, p) \in Int /\ Earned(S, p) \in Int
<1> DEFINE T == {s \in S : Product[s] = p}
<1>1. T \in SUBSET Sales /\ IsFiniteSet(T)
  BY ReportsAssumption, FS_Subset
<1>2. \A s \in T : Quantity[s] \in Int /\ Values[s] \in Int
  <2> SUFFICES ASSUME NEW s \in T PROVE Quantity[s] \in Int /\ Values[s] \in Int
    OBVIOUS
  <2>1. s \in Sales /\ Quantity[s] \in Int /\ Price[s] \in Int
    BY <1>1, ReportsAssumption
  <2> QED BY <2>1 DEF Values
<1>3. UnitsSold(S, p) = Sum(Quantity, T)
  BY UnitsAreSum
<1>4. Earned(S, p) = MapThenSumSet(LAMBDA s : Quantity[s] * Price[s], T)
  BY DEF Earned
<1> HIDE DEF T
<1>5. Earned(S, p) = Sum(Values, T)
  BY <1>1, <1>4, ValuesSum
<1> QED BY <1>1, <1>2, <1>3, <1>5, SumInt

(* The first of a DENSE_RANK are those that nobody is above. *)
LEMMA FirstRankedIsBest ==
  ASSUME NEW sums, IsFiniteSet(DOMAIN sums), \A p \in DOMAIN sums : sums[p] \in Int
  PROVE  FirstRanked(sums) = Best(sums)
<1> DEFINE Higher(p) == {x \in DOMAIN sums : sums[x] > sums[p]}
           Above(p) == {sums[q] : q \in Higher(p)}
<1>1. ASSUME NEW p \in DOMAIN sums
      PROVE  1 + Cardinality(Above(p)) = 1 <=> \A q \in DOMAIN sums : sums[q] <= sums[p]
  <2> DEFINE f == [q \in Higher(p) |-> sums[q]]
  <2>1. IsFiniteSet(Higher(p))
    BY FS_Subset
  <2>2. f \in Surjection(Higher(p), Above(p))
    BY DEF Surjection
  <2>3. IsFiniteSet(Above(p))
    <3> HIDE DEF f, Higher, Above
    <3> QED BY <2>1, <2>2, FS_Surjection
  <2>4. Cardinality(Above(p)) \in Nat /\ (Cardinality(Above(p)) = 0 <=> Above(p) = {})
    BY <2>3, FS_CardinalityType, FS_EmptySet
  <2>5. Above(p) = {} <=> \A q \in DOMAIN sums : ~ (sums[q] > sums[p])
    OBVIOUS
  <2>6. \A q \in DOMAIN sums : ~ (sums[q] > sums[p]) <=> sums[q] <= sums[p]
    OBVIOUS
  <2> HIDE DEF Above
  <2> QED BY <2>4, <2>5, <2>6
<1>2. FirstRanked(sums) = {p \in DOMAIN sums : 1 + Cardinality(Above(p)) = 1}
  BY DEF FirstRanked
<1> HIDE DEF Above
<1> QED BY <1>1, <1>2 DEF Best

(* ORDER BY units_sold, product_name, where u are the units sold. *)
Ahead(u, p, q) == u[p] < u[q] \/ (u[p] = u[q] /\ p < q)
Rank(u, T, p) == Cardinality({q \in T : Ahead(u, q, p)})
Limited(u, T, limit) == {p \in T : Rank(u, T, p) < limit}

(* S can be listed so. *)
Listable(u, S) == S \subseteq Int /\ \A p \in S : u[p] \in Int

(* In every list there is a last. *)
LEMMA LastExists ==
  ASSUME NEW S, IsFiniteSet(S), S # {}, NEW u, Listable(u, S)
  PROVE  \E m \in S : \A q \in S : q # m => Ahead(u, q, m)
<1> DEFINE IsLast(T, m) == m \in T /\ \A q \in T : q # m => Ahead(u, q, m)
           C == {T \in SUBSET S : T # {} /\ ~ \E m \in T : IsLast(T, m)}
<1>1. ASSUME C # {} PROVE FALSE
  <2>1. PICK T \in C : \A U \in C : ~ (U \subseteq T /\ U # T)
    <3>1. C \in SUBSET SUBSET S
      OBVIOUS
    <3> HIDE DEF C
    <3> QED BY <1>1, <3>1, MinimalSubset
  <2>2. PICK x \in T : TRUE
    BY <2>1
  <2>3. T \ {x} # {}
    BY <2>1, <2>2
  <2>4. PICK m \in T \ {x} : IsLast(T \ {x}, m)
    <3>1. T \ {x} \in SUBSET S /\ T \ {x} \notin C
      BY <2>1, <2>2
    <3> QED BY <2>3, <3>1
  <2>5. x \in Int /\ m \in Int /\ x # m /\ u[x] \in Int /\ u[m] \in Int
    BY <2>1, <2>2, <2>4 DEF Listable
  <2>6. CASE Ahead(u, x, m)
    <3>1. IsLast(T, m)
      BY <2>2, <2>4, <2>6
    <3> QED BY <2>1, <3>1
  <2>7. CASE Ahead(u, m, x)
    <3>1. ASSUME NEW q \in T, q # x
          PROVE  Ahead(u, q, x)
      <4>1. q = m \/ Ahead(u, q, m)
        BY <2>4, <3>1
      <4>2. q \in Int /\ u[q] \in Int
        BY <2>1 DEF Listable
      <4> QED BY <2>5, <2>7, <4>1, <4>2 DEF Ahead
    <3>2. IsLast(T, x)
      BY <2>2, <3>1
    <3> QED BY <2>1, <2>2, <3>2
  <2> QED BY <2>5, <2>6, <2>7 DEF Ahead
<1> QED BY <1>1

(* A list cut off at its limit has as many as fit. *)
LEMMA LimitedCardinality ==
  ASSUME NEW S, IsFiniteSet(S), NEW u, Listable(u, S), NEW limit \in Nat
  PROVE  Cardinality(Limited(u, S, limit))
           = IF Cardinality(S) < limit THEN Cardinality(S) ELSE limit
<1> DEFINE Fits(T) == Cardinality(Limited(u, T, limit))
                        = IF Cardinality(T) < limit THEN Cardinality(T) ELSE limit
           C == {T \in SUBSET S : ~ Fits(T)}
<1>1. ASSUME C # {} PROVE FALSE
  <2>1. PICK T \in C : \A U \in C : ~ (U \subseteq T /\ U # T)
    <3>1. C \in SUBSET SUBSET S
      OBVIOUS
    <3> HIDE DEF C
    <3> QED BY <1>1, <3>1, MinimalSubset
  <2>2. T \in SUBSET S /\ ~ Fits(T) /\ IsFiniteSet(T) /\ Cardinality(T) \in Nat
    BY <2>1, FS_Subset, FS_CardinalityType
  <2>3. T # {}
    <3> SUFFICES ASSUME T = {} PROVE Fits(T)
      BY <2>2
    <3>1. Limited(u, T, limit) = {}
      BY DEF Limited
    <3> QED BY <3>1, FS_EmptySet
  <2>4. PICK m \in T : \A q \in T : q # m => Ahead(u, q, m)
    <3>1. Listable(u, T)
      BY <2>2 DEF Listable
    <3> QED BY <2>2, <2>3, <3>1, LastExists
  <2> DEFINE V == T \ {m}
             n == Cardinality(V)
  <2>5. Fits(V)
    <3>1. V \in SUBSET S /\ V \subseteq T /\ V # T
      BY <2>2, <2>4
    <3> QED BY <2>1, <3>1
  <2>6. IsFiniteSet(V) /\ n \in Nat /\ Cardinality(T) = n + 1
    <3>1. IsFiniteSet(V) /\ Cardinality(V) = Cardinality(T) - 1
      BY <2>2, <2>4, FS_RemoveElement
    <3>2. Cardinality(V) \in Nat
      <4> HIDE DEF V
      <4> QED BY <3>1, FS_CardinalityType
    <3> QED BY <2>2, <3>1, <3>2
  <2>7. ASSUME NEW p \in V PROVE Rank(u, T, p) = Rank(u, V, p)
    <3>1. ~ Ahead(u, m, p)
      <4>1. m \in Int /\ p \in Int /\ u[m] \in Int /\ u[p] \in Int /\ Ahead(u, p, m)
        BY <2>2, <2>4 DEF Listable
      <4> QED BY <4>1 DEF Ahead
    <3>2. {q \in T : Ahead(u, q, p)} = {q \in V : Ahead(u, q, p)}
      BY <3>1
    <3> QED BY <3>2 DEF Rank
  <2>8. Rank(u, T, m) = n
    <3>1. ~ Ahead(u, m, m)
      <4>1. m \in Int /\ u[m] \in Int
        BY <2>2, <2>4 DEF Listable
      <4> QED BY <4>1 DEF Ahead
    <3>2. {q \in T : Ahead(u, q, m)} = V
      BY <2>4, <3>1
    <3> QED BY <3>2 DEF Rank
  <2> DEFINE L == Limited(u, V, limit)
  <2>9. IsFiniteSet(L) /\ m \notin L
    <3>1. L \in SUBSET V
      BY DEF Limited
    <3> QED BY <2>6, <3>1, FS_Subset
  <2>10. CASE n < limit
    <3>1. Limited(u, T, limit) = L \union {m}
      BY <2>4, <2>7, <2>8, <2>10 DEF Limited
    <3>2. Cardinality(L) = n
      BY <2>5, <2>10
    <3> HIDE DEF L, n
    <3>3. Cardinality(L \union {m}) = n + 1
      BY <2>9, <3>2, FS_AddElement
    <3>4. IF n + 1 < limit THEN n + 1 = n + 1 ELSE limit = n + 1
      BY <2>6, <2>10
    <3> QED BY <2>2, <2>6, <3>1, <3>3, <3>4
  <2>11. CASE ~ (n < limit)
    <3>1. Limited(u, T, limit) = L
      BY <2>4, <2>7, <2>8, <2>11 DEF Limited
    <3>2. Cardinality(L) = limit
      BY <2>5, <2>11
    <3>3. ~ (n + 1 < limit)
      BY <2>6, <2>11
    <3> QED BY <2>2, <2>6, <3>1, <3>2, <3>3
  <2> QED BY <2>10, <2>11
<1> QED BY <1>1

(* What is cut off is behind what is not. *)
LEMMA LimitedFirst ==
  ASSUME NEW S, IsFiniteSet(S), NEW u, Listable(u, S),
         NEW limit \in Nat, NEW p \in Limited(u, S, limit),
         NEW q \in S \ Limited(u, S, limit)
  PROVE  u[p] <= u[q]
<1> SUFFICES ASSUME u[q] < u[p] PROVE FALSE
  BY DEF Limited, Listable
<1>1. p \in S /\ Rank(u, S, p) < limit /\ ~ (Rank(u, S, q) < limit)
  BY DEF Limited
<1> DEFINE P == {x \in S : Ahead(u, x, p)}
           Q == {x \in S : Ahead(u, x, q)}
<1>2. Q \in SUBSET P
  <2> SUFFICES ASSUME NEW x \in S, Ahead(u, x, q) PROVE Ahead(u, x, p)
    OBVIOUS
  <2>1. u[x] \in Int /\ u[p] \in Int /\ u[q] \in Int
    BY <1>1 DEF Listable
  <2> QED BY <2>1 DEF Ahead
<1>3. IsFiniteSet(P) /\ IsFiniteSet(Q)
  BY FS_Subset
<1>4. Cardinality(Q) <= Cardinality(P) /\ Cardinality(P) \in Nat /\ Cardinality(Q) \in Nat
  <2> HIDE DEF P, Q
  <2> QED BY <1>2, <1>3, FS_Subset, FS_CardinalityType
<1>5. Rank(u, S, p) = Cardinality(P) /\ Rank(u, S, q) = Cardinality(Q)
  BY DEF Rank
<1> HIDE DEF P, Q
<1> QED BY <1>1, <1>4, <1>5

LEMMA SlowMovingAreSlowest ==
  ASSUME NEW S \in SUBSET Sales, NEW most \in Nat, NEW limit \in Nat
  PROVE  AreSlowest(SlowMoving(S, most, limit), S, most, limit)
<1> DEFINE slow == {p \in Products : UnitsSold(S, p) <= most}
           u == [p \in Products |-> UnitsSold(S, p)]
           L == Limited(u, slow, limit)
<1>1. IsFiniteSet(slow) /\ Listable(u, slow)
  BY ReportsAssumption, FS_Subset, FiguresType DEF Listable
<1>2. SlowMoving(S, most, limit) = L
  <2>1. ASSUME NEW p \in slow
        PROVE  Rank(u, slow, p) =
                 Cardinality({q \in slow : \/ UnitsSold(S, q) < UnitsSold(S, p)
                                           \/ UnitsSold(S, q) = UnitsSold(S, p) /\ q < p})
    <3>1. {q \in slow : Ahead(u, q, p)} =
            {q \in slow : \/ UnitsSold(S, q) < UnitsSold(S, p)
                          \/ UnitsSold(S, q) = UnitsSold(S, p) /\ q < p}
      BY DEF Ahead
    <3> QED BY <3>1 DEF Rank
  <2>2. SlowMoving(S, most, limit) =
          {p \in slow :
             Cardinality({q \in slow : \/ UnitsSold(S, q) < UnitsSold(S, p)
                                       \/ UnitsSold(S, q) = UnitsSold(S, p) /\ q < p})
               < limit}
    BY DEF SlowMoving
  <2> HIDE DEF u, slow
  <2> QED BY <2>1, <2>2 DEF Limited
<1>3. /\ L \subseteq slow
      /\ Cardinality(L) = IF Cardinality(slow) < limit THEN Cardinality(slow) ELSE limit
      /\ \A p \in L, q \in slow \ L : u[p] <= u[q]
  <2> HIDE DEF u, slow
  <2>1. L \subseteq slow
    BY DEF Limited
  <2> QED BY <1>1, <2>1, LimitedCardinality, LimitedFirst
<1>4. \A p \in slow : u[p] = UnitsSold(S, p)
  OBVIOUS
<1>5. \A p \in L, q \in slow \ L : UnitsSold(S, p) <= UnitsSold(S, q)
  <2> HIDE DEF u, slow, L
  <2> QED BY <1>3, <1>4
<1> HIDE DEF L, u
<1> QED BY <1>2, <1>3, <1>5 DEF AreSlowest

(***************************************************************************)
(* The figures of a period that was over when it was resolved are final:   *)
(* revenue and count, the best by units and by revenue, and the slowest    *)
(* within the limit, are those of all the sales of the local dates that    *)
(* were asked about, whatever is recorded while the statements run         *)
(* (SalesService.get_daily_summary and the handlers of the tools).         *)
(***************************************************************************)
THEOREM SettledFigures == Spec => []SettledIsExact
<1>1. TypeOK /\ SettledRows => SettledIsExact
  <2> SUFFICES ASSUME TypeOK, SettledRows, NEW r \in Readers, at[r] = "done",
                      "bounds" \in settled[r]
               PROVE  LET S == SoldOn(LAMBDA d : AsksAbout(r, d))
                          kind == request[r].kind
                      IN /\ kind \in {"report", "rest", "summary", "trend"} =>
                              /\ TotalRevenue(rows[r]["summary"]) = TotalRevenue(S)
                              /\ TransactionCount(rows[r]["summary"]) = Cardinality(S)
                         /\ kind \in {"report", "rest", "top"} =>
                              /\ FirstRanked(ByUnits(rows[r]["units"])) = Best(ByUnits(S))
                              /\ FirstRanked(ByRevenue(rows[r]["revenue"]))
                                    = Best(ByRevenue(S))
                         /\ kind = "slow" =>
                              AreSlowest(SlowMoving(rows[r]["slow"], request[r].max,
                                                    request[r].limit),
                                         S, request[r].max, request[r].limit)
    BY DEF SettledIsExact
  <2> DEFINE S == SoldOn(LAMBDA d : AsksAbout(r, d))
             kind == request[r].kind
  <2>1. \A q \in Statements : HasRead(r, q) => rows[r][q] = S
    BY DEF SettledRows
  <2>2. S \in SUBSET Sales
    BY DEF SoldOn
  <2> HIDE DEF S
  <2>3. kind \in {"report", "rest", "summary", "trend"} => rows[r]["summary"] = S
    BY <2>1 DEF HasRead, Statements
  <2>4. kind \in {"report", "rest", "top"} => rows[r]["units"] = S /\ rows[r]["revenue"] = S
    BY <2>1 DEF HasRead, Statements
  <2>5. kind = "slow" => /\ rows[r]["slow"] = S
                         /\ request[r].max \in Nat /\ request[r].limit \in Nat
    BY <2>1, ReportsAssumption DEF HasRead, Statements, TypeOK
  <2>6. FirstRanked(ByUnits(S)) = Best(ByUnits(S))
    <3>1. IsFiniteSet(ProductsOf(S))
      <4>1. ProductsOf(S) \in SUBSET Products
        BY <2>2, ReportsAssumption DEF ProductsOf
      <4> QED BY <4>1, ReportsAssumption, FS_Subset
    <3>2. DOMAIN ByUnits(S) = ProductsOf(S)
          /\ \A p \in ProductsOf(S) : ByUnits(S)[p] \in Int
      BY <2>2, FiguresType DEF ByUnits
    <3> QED BY <3>1, <3>2, FirstRankedIsBest
  <2>7. FirstRanked(ByRevenue(S)) = Best(ByRevenue(S))
    <3>1. IsFiniteSet(ProductsOf(S))
      <4>1. ProductsOf(S) \in SUBSET Products
        BY <2>2, ReportsAssumption DEF ProductsOf
      <4> QED BY <4>1, ReportsAssumption, FS_Subset
    <3>2. DOMAIN ByRevenue(S) = ProductsOf(S)
          /\ \A p \in ProductsOf(S) : ByRevenue(S)[p] \in Int
      BY <2>2, FiguresType DEF ByRevenue
    <3> QED BY <3>1, <3>2, FirstRankedIsBest
  <2>8. kind = "slow" =>
          AreSlowest(SlowMoving(rows[r]["slow"], request[r].max, request[r].limit),
                     S, request[r].max, request[r].limit)
    BY <2>2, <2>5, SlowMovingAreSlowest
  <2> QED BY <2>3, <2>4, <2>6, <2>7, <2>8 DEF TransactionCount, S
<1> QED BY <1>1, ReportsTyped, SettledReadsAll, PTL
=============================================================================
