------------------------------ MODULE Schedule ------------------------------
(***************************************************************************)
(* schedule_interval_seconds: the interval a schedule string asks for, one *)
(* character after the other.  The string is stripped and in lower case.   *)
(* The code looks up the names before it reads; here the lookup is in      *)
(* Interval, for a string is known to be a name only where it ends.        *)
(***************************************************************************)
EXTENDS Integers, Sequences

CONSTANTS
  Character, \* the characters schedules are made of
  MaxLength  \* bound: their length (32 in the schema)

VARIABLES
  text,    \* what has been read of the schedule
  seconds, \* locals of the loop
  number

parser == <<text, seconds, number>>

Raises == -1
Daily == 24 * 60 * 60

\* _SCHEDULE_INTERVALS
daily == <<"d", "a", "i", "l", "y">>
hourly == <<"h", "o", "u", "r", "l", "y">>
weekly == <<"w", "e", "e", "k", "l", "y">>
ScheduleIntervals ==
  [name \in {daily, hourly, weekly} |->
     CASE name = daily -> Daily [] name = hourly -> 3600 [] name = weekly -> 7 * Daily]

DigitValue == [c \in {"0", "1"} |-> IF c = "1" THEN 1 ELSE 0]

\* str.isdigit, which holds of more than int() reads (superscripts).
IsDigit(c) == c \in {"0", "1", "superscript"}

Unit(c) == IF c = "h" THEN 3600 ELSE 60

\* int(), and what it comes to at each digit
Values(digits) ==
  LET value[i \in 0..Len(digits)] ==
        IF i = 0 THEN 0 ELSE 10 * value[i - 1] + DigitValue[digits[i]]
  IN value
Value(digits) ==
  IF \E i \in 1..Len(digits) : digits[i] \notin DOMAIN DigitValue THEN Raises
  ELSE Values(digits)[Len(digits)]

ParseInit == text = <<>> /\ seconds = 0 /\ number = <<>>

Digit(c) ==
  /\ IsDigit(c)
  /\ number' = Append(number, c) /\ UNCHANGED seconds

\* int raises on what is no digit to it.
Term(c) ==
  /\ c \in {"h", "m"} /\ number # <<>>
  /\ seconds' = IF Value(number) = Raises THEN Raises
                ELSE seconds + Value(number) * Unit(c)
  /\ number' = <<>>

\* Mutant of Other: a character that means nothing does not end a number.
OtherKeeps(c) ==
  /\ ~IsDigit(c) /\ (c \in {"h", "m"} => number = <<>>)
  /\ UNCHANGED <<seconds, number>>

\* Any other character, and a unit without a number.
Other(c) ==
  /\ ~IsDigit(c) /\ (c \in {"h", "m"} => number = <<>>)
  /\ number' = <<>> /\ UNCHANGED seconds

ParseNext ==
  /\ seconds # Raises /\ Len(text) < MaxLength
  /\ \E c \in Character : /\ text' = Append(text, c)
                          /\ Digit(c) \/ Term(c) \/ Other(c)

ParseSpec == ParseInit /\ [][ParseNext]_parser

\* What is returned if the schedule ends here.
Interval ==
  IF text \in DOMAIN ScheduleIntervals THEN ScheduleIntervals[text]
  ELSE IF seconds = Raises THEN Raises
  ELSE IF seconds > 0 THEN seconds ELSE Daily

-----------------------------------------------------------------------------
\* The terms of a schedule, by the place of their unit, and the longest run
\* of digits that ends before it.
Terms(s) == {i \in 2..Len(s) : s[i] \in {"h", "m"} /\ IsDigit(s[i - 1])}
IsRun(s, j, i) ==
  /\ \A k \in j..i - 1 : IsDigit(s[k])
  /\ j = 1 \/ ~IsDigit(s[j - 1])
Number(s, i) == SubSeq(s, CHOOSE j \in 1..i - 1 : IsRun(s, j, i), i - 1)

\* What the terms up to each place come to, added from left to right.
Amount(s, i) ==
  IF i \in Terms(s) THEN Value(Number(s, i)) * Unit(s[i]) ELSE 0
Totals(s) ==
  LET total[i \in 0..Len(s)] == IF i = 0 THEN 0 ELSE total[i - 1] + Amount(s, i)
  IN total

\* "notation like 24h or 12h30m for custom schedules"
\* (app/services/overdue_service.py:54): but for the three names, the interval
\* is the sum of the terms number-unit wherever they stand, and a day where they
\* come to nothing, so also for "90", "7d", "0h" and "weekly2".  A number int()
\* does not read raises.
ScheduleMeaning ==
  Interval =
    IF text \in DOMAIN ScheduleIntervals THEN ScheduleIntervals[text]
    ELSE IF \E i \in Terms(text) : Value(Number(text, i)) = Raises THEN Raises
    ELSE LET sum == Totals(text)[Len(text)]
         IN IF sum = 0 THEN Daily ELSE sum
=============================================================================
