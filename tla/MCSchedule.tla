---------------------------- MODULE MCSchedule ----------------------------
(* A small calendar: two minutes an hour, two hours a day, three days a    *)
(* month, two days a week.  DST adds an hour from minute 2 to minute 9:    *)
(* it skips a named minute (3) and repeats another (11).                   *)
EXTENDS Schedule
CONSTANTS daily, hourly

AllDays == {1, 2, 3}
AllWeekdays == {0, 1}
DateOf(n) ==
    [minute |-> n % 2, hour |-> (n \div 2) % 2, day |-> ((n \div 4) % 3) + 1,
     month |-> (n \div 12) + 1, weekday |-> (n \div 4) % 2]
Calendar == [n \in -1..(MaxClock + 2) |-> DateOf(n)]
SummerTime == [t \in Minutes |-> IF t \in 2..9 THEN 2 ELSE 0]
\* Minute 1 of every hour, on the first of the month and on every first weekday:
\* wall-clock minutes 1, 3, 9, 11, 13.
FirstAndWeekly == [trigger \in {daily} |->
    [minute |-> {1}, hour |-> {0, 1}, dom |-> {1}, month |-> 1..9, dow |-> {0}]]
\* At 00:00 of the first of the month.
Monthly == [trigger \in {daily} |->
    [minute |-> {0}, hour |-> {0}, dom |-> {1}, month |-> 1..9, dow |-> AllWeekdays]]
EverySeventh == [trigger \in {hourly} |-> 7]
NoInterval == [trigger \in {} |-> 1]
=============================================================================
