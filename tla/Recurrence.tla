----------------------------- MODULE Recurrence -----------------------------
(***************************************************************************)
(* The due dates of a recurring commitment (apps/cashflow/main.go), as     *)
(* calendar arithmetic.  A date is a triple of year, month and day.        *)
(***************************************************************************)
EXTENDS Integers

MonthsPerPeriod == [weekly |-> 0, monthly |-> 1, quarterly |-> 3, yearly |-> 12]

Leap(year) == year % 4 = 0 /\ (year % 100 # 0 \/ year % 400 = 0)

DaysIn(year, month) ==
    CASE month \in {4, 6, 9, 11} -> 30
      [] month = 2 -> IF Leap(year) THEN 29 ELSE 28
      [] OTHER -> 31

\* What time.Parse takes for a date.
CalendarDates == {date \in Nat \X (1..12) \X (1..31) : date[3] <= DaysIn(date[1], date[2])}

\* Months since the year 0, and days since the first of January of the year 1.
MonthNumber(date) == 12 * date[1] + date[2] - 1

DayNumber(date) ==
    LET years == date[1] - 1
        leaps == (years \div 4) - (years \div 100) + (years \div 400)
        before == <<0, 31, 59, 90, 120, 151, 181, 212, 243, 273, 304, 334>>[date[2]]
        leapDay == IF Leap(date[1]) /\ date[2] > 2 THEN 1 ELSE 0
    IN  365 * years + leaps + before + leapDay + date[3] - 1

OfMonthNumber(number) == <<number \div 12, (number % 12) + 1, 1>>

\* The date that is so many days after the first of a month.
DaysAfter(first, days) ==
    LET number == DayNumber(first) + days
        month == CHOOSE m \in (MonthNumber(first) - 1)..(MonthNumber(first) + 1 + days \div 28) :
                     /\ DayNumber(OfMonthNumber(m)) <= number
                     /\ number < DayNumber(OfMonthNumber(m + 1))
    IN  [OfMonthNumber(month) EXCEPT ![3] = 1 + number - DayNumber(OfMonthNumber(month))]

\* time.Time.AddDate: months first, then the days, normalised.
AddDate(date, months, days) ==
    DaysAfter(OfMonthNumber(MonthNumber(date) + months), date[3] - 1 + days)

\* Mutant: a day past the end of the month rolls into the next one.
AddMonthsRolling(date, months) == AddDate(date, months, 0)

AddMonths(date, months) ==
    LET target == AddDate(<<date[1], date[2], 1>>, months, 0)
        lastDay == AddDate(target, 1, -1)[3]
    IN  <<target[1], target[2], IF date[3] < lastDay THEN date[3] ELSE lastDay>>

RecurringDates(request) ==
    [k \in 1..request.count |->
        IF MonthsPerPeriod[request.period] = 0
        THEN AddDate(request.first, 0, 7 * (k - 1))
        ELSE AddMonths(request.first, MonthsPerPeriod[request.period] * (k - 1))]
=============================================================================
