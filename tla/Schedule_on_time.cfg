SPECIFICATION Spec
CONSTANTS
  daily = daily
  hourly = hourly
  Triggers = {daily, hourly}
  Calendars = {daily}
  Fields <- FirstAndWeekly
  Every <- EverySeventh
  Date <- Calendar
  AnyDay <- AllDays
  AnyWeekday <- AllWeekdays
  Offset <- SummerTime
  Horizon = 6
  MaxClock = 11
  MaxDelay = 1
  MaxSwitches = 1
  MaxFailures = 1
INVARIANTS
  NamedMinutesAreCaught
  NoMoreTasksThanDue
  NoFireWithoutTask
CHECK_DEADLOCK FALSE
