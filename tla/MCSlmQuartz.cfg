SPECIFICATION SlmSpec
CONSTANTS
  Request = {r1, r2}
  Failing = {r2}
  Name <- Days
  Absent = Absent
  MaxCreates = 3
  Policies <- Quartz
  Daily <- Quartz
  DailyAt = 5400
  Scheduler = r1
  Start = 20588
  End = 20590
  Instants = {3600, 5400}
  EXECUTION_LOG_CAPACITY = 2
  MaxAsks = 4
CHECK_DEADLOCK FALSE
INVARIANTS EveryDayRuns
