SPECIFICATION Spec
CONSTANTS
  daily = daily
  hourly = hourly
  Triggers = {daily}
  Calendars = {daily}
  Fields <- Monthly
  Every <- NoInterval
  Date <- Calendar
  AnyDay <- AllDays
  AnyWeekday <- AllWeekdays
  Offset <- SummerTime
  Horizon = 8
  MaxClock = 22
  MaxDelay = 1
  MaxSwitches = 0
  MaxFailures = 0
INVARIANT NamedMinutesAreCaught
CHECK_DEADLOCK FALSE
