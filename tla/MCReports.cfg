\* One reader, as if a worker were started for the queue that the code names.
SPECIFICATION Spec
CONSTANTS
  Dates <- MCDates
  Years <- MCYears
  Year <- MCYear
  Month <- MCMonth
  FirstOf <- MCFirstOf
  AMonday <- MCAMonday
  DayLength <- MCDayLength
  Offset <- MCOffset
  Products <- MCProducts
  Sales <- MCSales
  Product <- MCProduct
  Quantity <- MCQuantity
  Price <- MCPrice
  Readers = {r1}
  Requests <- MCRequests
  Listens = {"reports_tasks"}
  Beginnings <- MCBeginnings
  Horizon = 3
INVARIANTS TypeOK PeriodIsUnit PreviousAdjoins FiguresGrow SettledIsExact NothingForeign
CHECK_DEADLOCK FALSE
