\* The queues that docker-compose.yml, Makefile and README.md start workers for.
SPECIFICATION FairSpec
CONSTANTS
  Dates <- MCDates
  Years <- MCYears
  Year <- MCYear
  Month <- MCMonth
  FirstOf <- MCFirstOf
  AMonday <- MCAMonday
  DayLength <- MCDayLength
  Offset <- MCOffset
  Products <- MCProducts
  Sales <- MCSales
  Product <- MCProduct
  Quantity <- MCQuantity
  Price <- MCPrice
  Readers = {r1}
  Requests <- MCRequests
  Listens = {"conversation_tasks", "report_tasks"}
  Beginnings <- MCBeginnings
  Horizon = 3
PROPERTY EveryReportIsTaken
CHECK_DEADLOCK FALSE
