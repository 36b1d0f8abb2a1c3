--------------------------- MODULE CashflowProofs ---------------------------
(***************************************************************************)
(* What is proved of the two calculations of the cash flow app.  The due   *)
(* dates of a recurring commitment: each is in its month, on the day of    *)
(* the first one or on the last day of a month too short for it, whatever  *)
(* the first date and however many follow.  The forecast: the balance of   *)
(* every event is what the accounts hold and what is due by its day,       *)
(* whatever has been booked.                                               *)
(***************************************************************************)
EXTENDS Recurrence, Forecast, FiniteSetTheorems, FunctionTheorems, WellFoundedInduction, TLAPS

-----------------------------------------------------------------------------
(* Sets of numbers: what stands for induction.                             *)

\* The smallest of some numbers: of the intervals below them, one has no other
\* one strictly inside.
LEMMA Smallest ==
    ASSUME NEW B, B \subseteq Nat, B # {}
    PROVE  \E x \in B : \A y \in B : x <= y
  <1> DEFINE Intervals == {1..n : n \in B}
  <1>1. \E U \in Intervals : \A V \in Intervals : ~(<<V, U>> \in StrictSubsetOrdering(Nat))
    <2>1. IsWellFoundedOn(StrictSubsetOrdering(Nat), FiniteSubsetsOf(Nat))
      BY FS_StrictSubsetOrderingWellFounded
    <2>2. Intervals \subseteq FiniteSubsetsOf(Nat)
      BY FS_Interval DEF FiniteSubsetsOf
    <2>3. Intervals # {}
      OBVIOUS
    <2> HIDE DEF Intervals
    <2>4. QED
      BY <2>1, <2>2, <2>3, WFMin
  <1>2. PICK x \in B : \A V \in Intervals : ~(<<V, 1..x>> \in StrictSubsetOrdering(Nat))
    BY <1>1
  <1>3. ASSUME NEW y \in B, y < x PROVE FALSE
    <2>1. 1..y \in Intervals
      OBVIOUS
    <2>2. 1..y \subseteq 1..x /\ x \in 1..x /\ x \notin 1..y
      BY <1>3
    <2>3. <<1..y, 1..x>> \in StrictSubsetOrdering(Nat)
      BY <2>2 DEF StrictSubsetOrdering
    <2>4. QED
      BY <1>2, <2>1, <2>3
  <1>4. QED
    BY <1>3

LEMMA Largest ==
    ASSUME NEW n \in Nat, NEW S \in SUBSET (1..n), S # {}
    PROVE  \E m \in S : \A x \in S : x <= m
  <1> DEFINE B == {n - x : x \in S}
  <1>1. B \subseteq Nat /\ B # {}
    <2>1. \A x \in S : x \in Int /\ n - x \in Nat
      OBVIOUS
    <2>2. QED
      BY <2>1
  <1>2. \E b \in B : \A c \in B : b <= c
    BY <1>1, Smallest
  <1>3. PICK m \in S : \A c \in B : n - m <= c
    BY <1>2
  <1>4. ASSUME NEW x \in S PROVE x <= m
    <2>1. n - m <= n - x
      BY <1>3
    <2>2. QED
      BY <2>1
  <1>5. QED
    BY <1>4

\* What holds of a set once it holds of its proper subsets, holds of them all.
LEMMA SubsetInduction ==
    ASSUME NEW S, IsFiniteSet(S), NEW G,
           \A T \in SUBSET S : (\A U \in SUBSET T : U # T => U \in G) => T \in G
    PROVE  \A T \in SUBSET S : T \in G
  <1> DEFINE Others == {T \in SUBSET S : T \notin G}
  <1>1. SUFFICES ASSUME Others # {} PROVE FALSE
    OBVIOUS
  <1>2. IsWellFoundedOn(StrictSubsetOrdering(S), FiniteSubsetsOf(S))
    BY FS_StrictSubsetOrderingWellFounded
  <1>3. Others \subseteq FiniteSubsetsOf(S)
    BY FS_Subset DEF FiniteSubsetsOf
  <1>4. \E T \in Others : \A U \in Others : ~(<<U, T>> \in StrictSubsetOrdering(S))
    <2> HIDE DEF Others
    <2>1. QED
      BY <1>1, <1>2, <1>3, WFMin
  <1>5. PICK T \in Others : \A U \in Others : ~(<<U, T>> \in StrictSubsetOrdering(S))
    BY <1>4
  <1>6. ASSUME NEW U \in SUBSET T, U # T PROVE U \in G
    <2>1. <<U, T>> \in StrictSubsetOrdering(S)
      BY <1>6 DEF StrictSubsetOrdering
    <2>2. QED
      BY <1>5, <2>1
  <1>7. QED
    BY <1>5, <1>6

\* The same for the numbers up to n, one after the other.
LEMMA UpTo ==
    ASSUME NEW n \in Nat, NEW G, 0 \in G, \A i \in 1..n : i - 1 \in G => i \in G
    PROVE  \A i \in 0..n : i \in G
  <1> DEFINE Others == {i \in 0..n : i \notin G}
  <1>1. SUFFICES ASSUME Others # {} PROVE FALSE
    OBVIOUS
  <1>2. \E i \in Others : \A j \in Others : i <= j
    <2>1. Others \subseteq Nat
      OBVIOUS
    <2> HIDE DEF Others
    <2>2. QED
      BY <1>1, <2>1, Smallest
  <1>3. PICK i \in Others : \A j \in Others : i <= j
    BY <1>2
  <1>4. i \in 1..n /\ i - 1 \in 0..n /\ ~(i <= i - 1)
    OBVIOUS
  <1>5. i - 1 \in G
    BY <1>3, <1>4
  <1>6. QED
    BY <1>4, <1>5

-----------------------------------------------------------------------------
(* The calendar.                                                           *)

\* A month is twelve times its year and what it is in the year.
LEMMA MonthParts ==
    ASSUME NEW m \in Int
    PROVE  /\ m \div 12 \in Int /\ m % 12 \in 0..11 /\ m = 12 * (m \div 12) + (m % 12)
  BY SMTT(30)

LEMMA NextMonth ==
    ASSUME NEW m \in Int
    PROVE  /\ m % 12 = 11 => (m + 1) \div 12 = m \div 12 + 1 /\ (m + 1) % 12 = 0
           /\ m % 12 # 11 => (m + 1) \div 12 = m \div 12 /\ (m + 1) % 12 = (m % 12) + 1
  BY SMTT(30)

LEMMA PartsOfMonth ==
    ASSUME NEW year \in Int, NEW month \in 1..12
    PROVE  /\ (12 * year + month - 1) \div 12 = year
           /\ (12 * year + month - 1) % 12 = month - 1
  BY SMTT(30)

\* The leap years up to a year: one more when it is one.
Leaps(year) == (year \div 4) - (year \div 100) + (year \div 400)

LEMMA LeapsStep ==
    ASSUME NEW year \in Int
    PROVE  /\ Leaps(year - 1) \in Int
           /\ Leaps(year) = Leaps(year - 1) + (IF Leap(year) THEN 1 ELSE 0)
  <1>1. year \div 4 = (year - 1) \div 4 + (IF year % 4 = 0 THEN 1 ELSE 0)
    BY SMTT(30)
  <1>2. year \div 100 = (year - 1) \div 100 + (IF year % 100 = 0 THEN 1 ELSE 0)
    BY SMTT(30)
  <1>3. year \div 400 = (year - 1) \div 400 + (IF year % 400 = 0 THEN 1 ELSE 0)
    BY SMTT(30)
  <1>4. /\ (year - 1) \div 4 \in Int /\ (year - 1) \div 100 \in Int /\ (year - 1) \div 400 \in Int
    OBVIOUS
  <1>5. (year % 400 = 0 => year % 100 = 0) /\ (year % 100 = 0 => year % 4 = 0)
    BY SMTT(30)
  <1>6. PICK a \in Int, b \in Int, c \in Int :
           a = (year - 1) \div 4 /\ b = (year - 1) \div 100 /\ c = (year - 1) \div 400
    BY <1>4
  <1>7. Leaps(year - 1) = a - b + c
    BY <1>6 DEF Leaps
  <1>8. Leaps(year) = a + (IF year % 4 = 0 THEN 1 ELSE 0) - (b + (IF year % 100 = 0 THEN 1 ELSE 0))
                        + (c + (IF year % 400 = 0 THEN 1 ELSE 0))
    BY <1>1, <1>2, <1>3, <1>6 DEF Leaps
  <1>9. QED
    BY <1>5, <1>7, <1>8 DEF Leap

LEMMA LeapsType ==
    ASSUME NEW year \in Int
    PROVE  Leaps(year) \in Int
  BY DEF Leaps

\* The number of a year's first day.
NewYear(year) == 365 * (year - 1) + Leaps(year - 1)

LEMMA NewYearStep ==
    ASSUME NEW year \in Int
    PROVE  /\ NewYear(year) \in Int
           /\ NewYear(year + 1) = NewYear(year) + 365 + (IF Leap(year) THEN 1 ELSE 0)
  <1>1. Leaps(year - 1) \in Int /\ Leaps(year) = Leaps(year - 1) + (IF Leap(year) THEN 1 ELSE 0)
    BY LeapsStep
  <1>2. year + 1 - 1 = year
    OBVIOUS
  <1>3. NewYear(year + 1) = 365 * year + Leaps(year)
    BY <1>2 DEF NewYear
  <1>4. PICK leaps \in Int, leap \in {0, 1} :
           leaps = Leaps(year - 1) /\ leap = IF Leap(year) THEN 1 ELSE 0
    BY <1>1
  <1>5. QED
    BY <1>1, <1>3, <1>4 DEF NewYear

\* The number of a month's first day.
First(m) == DayNumber(OfMonthNumber(m))

\* The days of a year that come before a month of it.
DaysBefore(year, month) ==
    <<0, 31, 59, 90, 120, 151, 181, 212, 243, 273, 304, 334>>[month]
        + (IF Leap(year) /\ month > 2 THEN 1 ELSE 0)

LEMMA BeforeType ==
    ASSUME NEW year \in Int, NEW month \in 1..12
    PROVE  DaysBefore(year, month) \in Nat
  BY DEF DaysBefore

LEMMA DayNumberIs ==
    ASSUME NEW year \in Int, NEW month \in 1..12, NEW day \in Int
    PROVE  DayNumber(<<year, month, day>>) = NewYear(year) + DaysBefore(year, month) + day - 1
  <1>1. Leaps(year - 1) \in Int
    BY LeapsType
  <1>2. PICK before \in Nat : before = <<0, 31, 59, 90, 120, 151, 181, 212, 243, 273, 304, 334>>[month]
    OBVIOUS
  <1>3. PICK leapDay \in {0, 1} : leapDay = IF Leap(year) /\ month > 2 THEN 1 ELSE 0
    OBVIOUS
  <1>4. DaysBefore(year, month) = before + leapDay
    BY <1>2, <1>3 DEF DaysBefore
  <1>5. DayNumber(<<year, month, day>>) = 365 * (year - 1) + Leaps(year - 1) + before + leapDay + day - 1
    BY <1>2, <1>3 DEF DayNumber, Leaps
  <1>6. QED
    BY <1>1, <1>4, <1>5 DEF NewYear

LEMMA FirstIs ==
    ASSUME NEW m \in Int, NEW year \in Int, NEW month \in 1..12,
           year = m \div 12, month = (m % 12) + 1
    PROVE  /\ First(m) = NewYear(year) + DaysBefore(year, month)
           /\ First(m) \in Int
  <1>1. First(m) = DayNumber(<<year, month, 1>>)
    BY DEF First, OfMonthNumber
  <1>2. DayNumber(<<year, month, 1>>) = NewYear(year) + DaysBefore(year, month) + 1 - 1
    BY DayNumberIs
  <1>3. NewYear(year) \in Int
    BY NewYearStep
  <1>4. DaysBefore(year, month) \in Nat
    BY BeforeType
  <1>5. QED
    BY <1>1, <1>2, <1>3, <1>4

\* Where the months of a year begin.
LEMMA BeforeNext ==
    ASSUME NEW year \in Int, NEW month \in 1..12
    PROVE  /\ month < 12 => DaysBefore(year, month + 1) = DaysBefore(year, month) + DaysIn(year, month)
           /\ DaysBefore(year, 12) + DaysIn(year, 12) = 365 + (IF Leap(year) THEN 1 ELSE 0)
           /\ DaysBefore(year, 1) = 0
           /\ DaysIn(year, month) \in 28..31
  BY DEF DaysBefore, DaysIn

\* From the first of a month to the first of the next it is the days of the month.
LEMMA MonthLength ==
    ASSUME NEW m \in Int
    PROVE  /\ First(m) \in Int
           /\ First(m + 1) = First(m) + DaysIn(m \div 12, (m % 12) + 1)
           /\ DaysIn(m \div 12, (m % 12) + 1) \in 28..31
  <1>1. PICK year \in Int, month \in 1..12 : year = m \div 12 /\ month = (m % 12) + 1
    BY MonthParts
  <1>2. First(m) = NewYear(year) + DaysBefore(year, month) /\ First(m) \in Int
    BY <1>1, FirstIs
  <1>3. PICK before \in Nat : before = DaysBefore(year, month)
    BY BeforeType
  <1>4. PICK days \in 28..31 : days = DaysIn(year, month)
    BY BeforeNext
  <1>5. First(m + 1) = First(m) + days
    <2>1. CASE month < 12
      <3>1. m + 1 \in Int /\ (m + 1) \div 12 = year /\ ((m + 1) % 12) + 1 = month + 1 /\ month + 1 \in 1..12
        BY <1>1, <2>1, NextMonth
      <3>2. First(m + 1) = NewYear(year) + DaysBefore(year, month + 1)
        BY <3>1, FirstIs
      <3>3. DaysBefore(year, month + 1) = before + days
        BY <1>3, <1>4, <2>1, BeforeNext
      <3>4. NewYear(year) \in Int
        BY NewYearStep
      <3>5. QED
        BY <1>2, <1>3, <3>2, <3>3, <3>4
    <2>2. CASE month = 12
      <3>1. m + 1 \in Int /\ year + 1 \in Int /\ (m + 1) \div 12 = year + 1 /\ ((m + 1) % 12) + 1 = 1
        BY <1>1, <2>2, NextMonth
      <3>2. First(m + 1) = NewYear(year + 1) + DaysBefore(year + 1, 1)
        <4>1. PICK n \in Int, next \in Int, january \in 1..12 : n = m + 1 /\ next = year + 1 /\ january = 1
          OBVIOUS
        <4>2. next = n \div 12 /\ january = (n % 12) + 1
          BY <3>1, <4>1
        <4>3. First(n) = NewYear(next) + DaysBefore(next, january)
          BY <4>2, FirstIs
        <4>4. QED
          BY <4>1, <4>3
      <3>3. /\ DaysBefore(year + 1, 1) = 0 /\ NewYear(year) \in Int
            /\ NewYear(year + 1) = NewYear(year) + 365 + (IF Leap(year) THEN 1 ELSE 0)
        BY BeforeNext, NewYearStep
      <3>4. before + days = 365 + (IF Leap(year) THEN 1 ELSE 0)
        BY <1>3, <1>4, <2>2, BeforeNext
      <3>5. PICK leap \in {0, 1} : leap = IF Leap(year) THEN 1 ELSE 0
        OBVIOUS
      <3>6. QED
        BY <1>2, <1>3, <3>2, <3>3, <3>4, <3>5
    <2>3. QED
      BY <2>1, <2>2
  <1>6. QED
    BY <1>1, <1>2, <1>4, <1>5

\* No month is shorter than 28 days.
LEMMA MonthsApart ==
    ASSUME NEW m \in Int, NEW n \in Nat
    PROVE  First(m + n) >= First(m) + 28 * n
  <1> DEFINE B == {k \in Nat : ~(First(m + k) >= First(m) + 28 * k)}
  <1>1. SUFFICES ASSUME B # {} PROVE FALSE
    OBVIOUS
  <1>2. B \subseteq Nat
    OBVIOUS
  <1>3. \E x \in B : \A y \in B : x <= y
    <2> HIDE DEF B
    <2>1. QED
      BY <1>1, <1>2, Smallest
  <1>4. PICK x \in B : \A y \in B : x <= y
    BY <1>3
  <1>5. x # 0
    BY MonthLength
  <1>6. x - 1 \in Nat /\ ~(x - 1 \in B)
    BY <1>4, <1>5
  <1>7. First(m + (x - 1)) >= First(m) + 28 * (x - 1)
    BY <1>6
  <1>8. m + (x - 1) \in Int /\ m + (x - 1) + 1 = m + x
    BY <1>6
  <1>9. /\ First(m + x) >= First(m + (x - 1)) + 28
        /\ First(m + (x - 1)) \in Int /\ First(m) \in Int /\ First(m + x) \in Int
    <2>1. PICK l \in Int : l = m + (x - 1)
      BY <1>8
    <2>2. First(l + 1) = First(l) + DaysIn(l \div 12, (l % 12) + 1) /\ First(l) \in Int
      BY MonthLength
    <2>3. DaysIn(l \div 12, (l % 12) + 1) \in 28..31 /\ First(m) \in Int
      BY MonthLength
    <2>4. QED
      BY <1>8, <2>1, <2>2, <2>3
  <1>10. PICK f \in Int, g \in Int, n2 \in Int : f = First(m) /\ g = First(m + (x - 1)) /\ n2 = First(m + x)
    BY <1>9
  <1>11. n2 >= f + 28 * x
    BY <1>7, <1>9, <1>10
  <1>12. QED
    BY <1>4, <1>10, <1>11

\* The month of a day is the only one that begins by then and ends after it.
LEMMA OneMonth ==
    ASSUME NEW k \in Int, NEW m \in Int, First(k) < First(m + 1), First(m) < First(k + 1)
    PROVE  k = m
  <1>1. ASSUME NEW a \in Int, NEW b \in Int, a < b, First(b) < First(a + 1) PROVE FALSE
    <2>1. PICK c \in Int, n \in Nat : c = a + 1 /\ n = b - c
      BY <1>1
    <2>2. c + n = b
      BY <2>1
    <2>3. First(b) >= First(c) + 28 * n
      BY <2>2, MonthsApart
    <2>4. First(c) \in Int /\ First(b) \in Int
      BY MonthLength
    <2>5. QED
      BY <1>1, <2>1, <2>3, <2>4
  <1>2. ~(k < m) /\ ~(m < k)
    BY <1>1
  <1>3. QED
    BY <1>2

\* The month that a number of days leads to, searched from the one before to as
\* many after as the days are long months, is there.
Reached(m, days, k) == First(k) <= First(m) + days /\ First(m) + days < First(k + 1)

LEMMA MonthIsReached ==
    ASSUME NEW m \in Int, NEW days \in Int, days >= -28
    PROVE  \E k \in (m - 1)..(m + 1 + (days \div 28)) : Reached(m, days, k)
  <1>1. PICK q \in Int : q = days \div 28
    OBVIOUS
  <1>2. 28 * q <= days /\ days < 28 * q + 28 /\ q >= -1
    BY <1>1, SMTT(30)
  <1>3. PICK f \in Int : f = First(m)
    BY MonthLength
  <1> DEFINE B == {n \in Nat : f + days < First(m + n)}
  <1>4. q + 2 \in B
    <2>1. q + 2 \in Nat
      BY <1>2
    <2>2. PICK n \in Nat : n = q + 2
      BY <2>1
    <2>3. First(m + n) >= First(m) + 28 * n
      BY MonthsApart
    <2>4. First(m + n) \in Int
      BY MonthLength
    <2>5. QED
      BY <1>2, <1>3, <2>2, <2>3, <2>4
  <1>5. PICK x \in B : \A y \in B : x <= y
    <2>1. B \subseteq Nat /\ B # {}
      BY <1>4
    <2> HIDE DEF B
    <2>2. QED
      BY <2>1, Smallest
  <1>6. x \in Nat /\ x <= q + 2 /\ f + days < First(m + x)
    BY <1>4, <1>5
  <1>7. PICK k \in Int : k = m + x - 1
    BY <1>6
  <1>8. First(k) \in Int /\ First(k + 1) \in Int /\ k + 1 = m + x
    BY <1>6, <1>7, MonthLength
  <1>9. First(k) <= f + days
    <2>1. CASE x = 0
      <3>1. m = k + 1
        BY <1>7, <2>1
      <3>2. First(k + 1) = First(k) + DaysIn(k \div 12, (k % 12) + 1)
        BY MonthLength
      <3>3. DaysIn(k \div 12, (k % 12) + 1) \in 28..31
        BY MonthLength
      <3>4. QED
        BY <1>3, <1>8, <3>1, <3>2, <3>3
    <2>2. CASE x # 0
      <3>1. x - 1 \in Nat /\ x - 1 \notin B
        BY <1>5, <1>6, <2>2
      <3>2. m + (x - 1) = k
        BY <1>6, <1>7
      <3>3. QED
        BY <1>8, <3>1, <3>2
    <2>3. QED
      BY <2>1, <2>2
  <1>10. k \in (m - 1)..(m + 1 + q)
    BY <1>6, <1>7
  <1>11. QED
    BY <1>1, <1>3, <1>6, <1>8, <1>9, <1>10 DEF Reached

LEMMA NumberOfMonth ==
    ASSUME NEW m \in Int
    PROVE  MonthNumber(OfMonthNumber(m)) = m
  <1>1. m \div 12 \in Int /\ m % 12 \in 0..11 /\ m = 12 * (m \div 12) + (m % 12)
    BY MonthParts
  <1>2. PICK q \in Int, r \in 0..11 : q = m \div 12 /\ r = m % 12
    BY <1>1
  <1>3. MonthNumber(<<q, r + 1, 1>>) = 12 * q + (r + 1) - 1
    BY DEF MonthNumber
  <1>4. QED
    BY <1>1, <1>2, <1>3 DEF OfMonthNumber

\* The date that DaysAfter gives is a day of the month that is reached.
DayOfMonth(k, day) == <<k \div 12, (k % 12) + 1, day>>

LEMMA DaysAfterIs ==
    ASSUME NEW m \in Int, NEW days \in Int, days >= -28
    PROVE  \E k \in Int : /\ Reached(m, days, k)
                          /\ DaysAfter(OfMonthNumber(m), days) =
                                DayOfMonth(k, 1 + (First(m) + days) - First(k))
  <1> DEFINE month == CHOOSE k \in (m - 1)..(m + 1 + (days \div 28)) : Reached(m, days, k)
  <1>1. month \in (m - 1)..(m + 1 + (days \div 28)) /\ Reached(m, days, month)
    BY MonthIsReached
  <1>2. month \in Int
    BY <1>1
  <1>3. DaysAfter(OfMonthNumber(m), days) =
           [OfMonthNumber(month) EXCEPT ![3] = 1 + (First(m) + days) - First(month)]
    <2>1. PICK first : first = OfMonthNumber(m)
      OBVIOUS
    <2>2. MonthNumber(first) = m /\ DayNumber(first) = First(m)
      BY <2>1, NumberOfMonth DEF First
    <2>3. DaysAfter(first, days) =
             [OfMonthNumber(month) EXCEPT ![3] = 1 + (First(m) + days) - First(month)]
      BY <2>2 DEF DaysAfter, Reached, First
    <2>4. QED
      BY <2>1, <2>3
  <1>4. PICK k \in Int : k = month
    BY <1>2
  <1>5. [OfMonthNumber(k) EXCEPT ![3] = 1 + (First(m) + days) - First(k)] =
           DayOfMonth(k, 1 + (First(m) + days) - First(k))
    BY DEF OfMonthNumber, DayOfMonth
  <1>6. QED
    BY <1>1, <1>3, <1>4, <1>5

LEMMA DayOfMonthIs ==
    ASSUME NEW k \in Int, NEW day \in Int
    PROVE  /\ DayNumber(DayOfMonth(k, day)) = First(k) + day - 1
           /\ MonthNumber(DayOfMonth(k, day)) = k
           /\ DayOfMonth(k, day)[1] = k \div 12 /\ DayOfMonth(k, day)[2] = (k % 12) + 1
           /\ DayOfMonth(k, day)[3] = day
  <1>1. PICK q \in Int, r \in 1..12 : q = k \div 12 /\ r = (k % 12) + 1 /\ k = 12 * q + r - 1
    <2>1. k \div 12 \in Int /\ k % 12 \in 0..11 /\ k = 12 * (k \div 12) + (k % 12)
      BY MonthParts
    <2>2. QED
      BY <2>1
  <1>2. DayOfMonth(k, day) = <<q, r, day>>
    BY <1>1 DEF DayOfMonth
  <1>3. DayNumber(<<q, r, day>>) = First(k) + day - 1
    <2>1. DayNumber(<<q, r, day>>) = NewYear(q) + DaysBefore(q, r) + day - 1
      BY DayNumberIs
    <2>2. First(k) = NewYear(q) + DaysBefore(q, r)
      BY <1>1, FirstIs
    <2>3. QED
      BY <2>1, <2>2
  <1>4. MonthNumber(<<q, r, day>>) = k
    BY <1>1 DEF MonthNumber
  <1>5. QED
    BY <1>1, <1>2, <1>3, <1>4

LEMMA DayOfMonthDate ==
    ASSUME NEW k \in Nat, NEW day \in 1..DaysIn(k \div 12, (k % 12) + 1)
    PROVE  DayOfMonth(k, day) \in CalendarDates
  <1>1. /\ k \div 12 \in Int /\ k % 12 \in 0..11 /\ k = 12 * (k \div 12) + (k % 12)
        /\ DaysIn(k \div 12, (k % 12) + 1) \in 28..31
    <2>1. k \in Int
      OBVIOUS
    <2>2. k \div 12 \in Int /\ k % 12 \in 0..11 /\ k = 12 * (k \div 12) + (k % 12)
      BY <2>1, MonthParts
    <2>3. DaysIn(k \div 12, (k % 12) + 1) \in 28..31
      BY <2>1, MonthLength
    <2>4. QED
      BY <2>2, <2>3
  <1>2. PICK q \in Nat, r \in 1..12, days \in 28..31 :
           q = k \div 12 /\ r = (k % 12) + 1 /\ days = DaysIn(q, r)
    BY <1>1
  <1>3. <<q, r, day>> \in Nat \X (1..12) \X (1..31) /\ day <= DaysIn(q, r)
    BY <1>2
  <1>4. QED
    BY <1>2, <1>3 DEF DayOfMonth, CalendarDates

\* A date is a day of its month.
LEMMA DateParts ==
    ASSUME NEW date \in CalendarDates
    PROVE  /\ MonthNumber(date) \in Nat
           /\ date = DayOfMonth(MonthNumber(date), date[3])
           /\ date[1] \in Nat /\ date[2] \in 1..12
           /\ date[3] \in 1..31 /\ date[3] <= DaysIn(date[1], date[2])
           /\ MonthNumber(date) \div 12 = date[1] /\ (MonthNumber(date) % 12) + 1 = date[2]
           /\ MonthNumber(<<date[1], date[2], 1>>) = MonthNumber(date)
  <1>1. PICK year \in Nat, month \in 1..12, day \in 1..31 :
           date = <<year, month, day>> /\ day <= DaysIn(year, month)
    BY SMTT(30) DEF CalendarDates
  <1>2. MonthNumber(date) = 12 * year + month - 1 /\ MonthNumber(<<year, month, 1>>) = 12 * year + month - 1
    BY <1>1 DEF MonthNumber
  <1>3. (12 * year + month - 1) \div 12 = year /\ (12 * year + month - 1) % 12 = month - 1
    BY SMTT(30), PartsOfMonth
  <1>4. DayOfMonth(12 * year + month - 1, day) = <<year, month, day>>
    BY <1>3 DEF DayOfMonth
  <1>5. QED
    BY <1>1, <1>2, <1>3, <1>4

\* AddDate with days only counts them, and gives a date.
THEOREM AddDateCounts ==
    ASSUME NEW date \in CalendarDates, NEW days \in Nat
    PROVE  /\ AddDate(date, 0, days) \in CalendarDates
           /\ DayNumber(AddDate(date, 0, days)) = DayNumber(date) + days
  <1>1. PICK m \in Nat, day \in 1..31 : m = MonthNumber(date) /\ day = date[3] /\ date = DayOfMonth(m, day)
    BY DateParts
  <1>2. PICK d \in Nat : d = day - 1 + days
    OBVIOUS
  <1>3. AddDate(date, 0, days) = DaysAfter(OfMonthNumber(m), d)
    <2>1. m + 0 = m
      OBVIOUS
    <2>2. QED
      BY <1>1, <1>2, <2>1 DEF AddDate
  <1>4. PICK k \in Int : /\ Reached(m, d, k)
                        /\ DaysAfter(OfMonthNumber(m), d) = DayOfMonth(k, 1 + (First(m) + d) - First(k))
    <2>1. m \in Int /\ d \in Int /\ d >= -28
      OBVIOUS
    <2>2. QED
      BY <2>1, DaysAfterIs
  <1>5. PICK f \in Int, g \in Int : f = First(m) /\ g = First(k)
    <2>1. First(m) \in Int
      BY MonthLength
    <2>2. First(k) \in Int
      BY MonthLength
    <2>3. QED
      BY <2>1, <2>2
  <1>6. PICK length \in 28..31 : length = DaysIn(k \div 12, (k % 12) + 1) /\ First(k + 1) = g + length
    BY <1>5, MonthLength
  <1>7. PICK there \in 1..length : there = 1 + (f + d) - g
    BY <1>4, <1>5, <1>6 DEF Reached
  <1>8. k \in Nat
    <2>1. SUFFICES ASSUME k < m PROVE FALSE
      OBVIOUS
    <2>2. PICK c \in Int, n \in Nat : c = k + 1 /\ n = m - c /\ c + n = m
      BY <2>1
    <2>3. First(c + n) >= First(c) + 28 * n
      BY MonthsApart
    <2>4. QED
      BY <1>4, <1>5, <1>6, <2>2, <2>3 DEF Reached
  <1>9. AddDate(date, 0, days) = DayOfMonth(k, there)
    BY <1>3, <1>4, <1>5, <1>7
  <1>10. DayOfMonth(k, there) \in CalendarDates
    BY <1>6, <1>7, <1>8, DayOfMonthDate
  <1>11. DayNumber(DayOfMonth(k, there)) = g + there - 1 /\ DayNumber(date) = f + day - 1
    <2>1. there \in Int /\ m \in Int /\ day \in Int
      OBVIOUS
    <2>2. DayNumber(DayOfMonth(k, there)) = First(k) + there - 1
      BY <2>1, DayOfMonthIs
    <2>3. DayNumber(DayOfMonth(m, day)) = First(m) + day - 1
      BY <2>1, DayOfMonthIs
    <2>4. QED
      BY <1>1, <1>5, <2>2, <2>3
  <1>12. QED
    BY <1>2, <1>7, <1>9, <1>10, <1>11

LEMMA FirstOfMonth ==
    ASSUME NEW m \in Int
    PROVE  DaysAfter(OfMonthNumber(m), 0) = DayOfMonth(m, 1)
  <1>1. PICK k \in Int : /\ Reached(m, 0, k)
                        /\ DaysAfter(OfMonthNumber(m), 0) = DayOfMonth(k, 1 + (First(m) + 0) - First(k))
    <2>1. PICK d \in Int : d = 0 /\ d >= -28
      OBVIOUS
    <2>2. \E k \in Int : /\ Reached(m, d, k)
                         /\ DaysAfter(OfMonthNumber(m), d) = DayOfMonth(k, 1 + (First(m) + d) - First(k))
      BY <2>1, DaysAfterIs
    <2>3. QED
      BY <2>1, <2>2
  <1>2. First(m) \in Int /\ First(m) < First(m + 1)
    <2>1. PICK length \in 28..31 : length = DaysIn(m \div 12, (m % 12) + 1)
      BY MonthLength
    <2>2. First(m + 1) = First(m) + length /\ First(m) \in Int
      BY <2>1, MonthLength
    <2>3. QED
      BY <2>2
  <1>3. First(k) <= First(m) /\ First(m) < First(k + 1)
    BY <1>1, <1>2 DEF Reached
  <1>4. First(k) \in Int /\ First(m + 1) \in Int
    <2>1. m + 1 \in Int
      OBVIOUS
    <2>2. QED
      BY <2>1, MonthLength
  <1>5. k = m
    BY <1>2, <1>3, <1>4, OneMonth
  <1>6. 1 + (First(m) + 0) - First(m) = 1
    BY <1>2
  <1>7. QED
    BY <1>1, <1>5, <1>6

LEMMA LastOfMonth ==
    ASSUME NEW m \in Int
    PROVE  DaysAfter(OfMonthNumber(m + 1), -1) = DayOfMonth(m, DaysIn(m \div 12, (m % 12) + 1))
  <1>1. PICK next \in Int : next = m + 1
    OBVIOUS
  <1>2. PICK k \in Int : /\ Reached(next, -1, k)
                        /\ DaysAfter(OfMonthNumber(next), -1) = DayOfMonth(k, 1 + (First(next) + (-1)) - First(k))
    <2>1. PICK d \in Int : d = -1 /\ d >= -28
      OBVIOUS
    <2>2. \E k \in Int : /\ Reached(next, d, k)
                         /\ DaysAfter(OfMonthNumber(next), d) = DayOfMonth(k, 1 + (First(next) + d) - First(k))
      BY <2>1, DaysAfterIs
    <2>3. QED
      BY <2>1, <2>2
  <1>3. PICK f \in Int, length \in 28..31 :
           f = First(m) /\ length = DaysIn(m \div 12, (m % 12) + 1) /\ First(next) = f + length
    BY <1>1, MonthLength
  <1>4. First(k) \in Int /\ First(k + 1) \in Int
    <2>1. k + 1 \in Int
      OBVIOUS
    <2>2. QED
      BY <2>1, MonthLength
  <1>5. First(k) < First(m + 1) /\ First(m) < First(k + 1)
    BY <1>1, <1>2, <1>3, <1>4 DEF Reached
  <1>6. k = m
    BY <1>5, OneMonth
  <1>7. 1 + (First(next) + (-1)) - First(k) = length
    BY <1>3, <1>6
  <1>8. QED
    BY <1>1, <1>2, <1>3, <1>6, <1>7

\* So many months later: the same day, or the last one of a shorter month.
THEOREM AddMonthsClamps ==
    ASSUME NEW date \in CalendarDates, NEW months \in Nat
    PROVE  LET later == AddMonths(date, months)
               length == DaysIn(later[1], later[2])
           IN  /\ later \in CalendarDates
               /\ MonthNumber(later) = MonthNumber(date) + months
               /\ later[3] = IF date[3] < length THEN date[3] ELSE length
  <1>1. PICK m \in Nat, day \in 1..31 : m = MonthNumber(date) /\ day = date[3]
    BY DateParts
  <1>2. PICK n \in Nat : n = m + months
    OBVIOUS
  <1>3. PICK q \in Int, r \in 1..12, length \in 28..31 :
           q = n \div 12 /\ r = (n % 12) + 1 /\ length = DaysIn(q, r)
    <2>1. n \in Int
      OBVIOUS
    <2>2. n \div 12 \in Int /\ n % 12 \in 0..11
      BY <2>1, MonthParts
    <2>3. DaysIn(n \div 12, (n % 12) + 1) \in 28..31
      BY <2>1, MonthLength
    <2>4. QED
      BY <2>2, <2>3
  <1>4. AddDate(<<date[1], date[2], 1>>, months, 0) = DayOfMonth(n, 1)
    <2>1. MonthNumber(<<date[1], date[2], 1>>) = m
      BY <1>1, DateParts
    <2>2. <<date[1], date[2], 1>>[3] - 1 + 0 = 0
      OBVIOUS
    <2>3. AddDate(<<date[1], date[2], 1>>, months, 0) = DaysAfter(OfMonthNumber(n), 0)
      BY <1>2, <2>1, <2>2 DEF AddDate
    <2>4. QED
      BY <2>3, FirstOfMonth
  <1>5. DayOfMonth(n, 1) = <<q, r, 1>> /\ MonthNumber(<<q, r, 1>>) = n
    <2>1. n \in Int /\ 1 \in Int
      OBVIOUS
    <2>2. MonthNumber(DayOfMonth(n, 1)) = n
      BY <2>1, DayOfMonthIs
    <2>3. DayOfMonth(n, 1) = <<q, r, 1>>
      BY <1>3 DEF DayOfMonth
    <2>4. QED
      BY <2>2, <2>3
  <1>6. AddDate(<<q, r, 1>>, 1, -1)[3] = length
    <2>1. <<q, r, 1>>[3] - 1 + (-1) = -1
      OBVIOUS
    <2>2. AddDate(<<q, r, 1>>, 1, -1) = DaysAfter(OfMonthNumber(n + 1), -1)
      BY <1>5, <2>1 DEF AddDate
    <2>3. DaysAfter(OfMonthNumber(n + 1), -1) = DayOfMonth(n, length)
      <3>1. n \in Int
        OBVIOUS
      <3>2. DaysAfter(OfMonthNumber(n + 1), -1) = DayOfMonth(n, DaysIn(n \div 12, (n % 12) + 1))
        BY <3>1, LastOfMonth
      <3>3. QED
        BY <1>3, <3>2
    <2>4. DayOfMonth(n, length)[3] = length
      BY DEF DayOfMonth
    <2>5. QED
      BY <2>2, <2>3, <2>4
  <1>7. PICK there \in 1..length : there = IF day < length THEN day ELSE length
    OBVIOUS
  <1>8. AddMonths(date, months) = <<q, r, there>>
    BY <1>1, <1>4, <1>5, <1>6, <1>7 DEF AddMonths
  <1>9. DayOfMonth(n, there) = <<q, r, there>>
    BY <1>3 DEF DayOfMonth
  <1>10. <<q, r, there>> \in CalendarDates
    BY <1>3, <1>9, DayOfMonthDate
  <1>11. MonthNumber(<<q, r, there>>) = n
    <2>1. n \in Int /\ there \in Int
      OBVIOUS
    <2>2. QED
      BY <1>9, <2>1, DayOfMonthIs
  <1>12. QED
    BY <1>1, <1>2, <1>3, <1>7, <1>8, <1>10, <1>11

-----------------------------------------------------------------------------
(* The commitments.                                                        *)

\* recurringDates, whatever it is asked for: so many dates, a week apart from the
\* first one on; or each in its month, as many months from the first one as it
\* is periods later, on the day of the first one, or on the last day of a month
\* too short for it.
THEOREM RecurringDatesInPlace ==
    ASSUME NEW request, request.first \in CalendarDates, request.count \in Nat,
           request.period \in DOMAIN MonthsPerPeriod
    PROVE  LET dates == RecurringDates(request)
               first == request.first
               months == MonthsPerPeriod[request.period]
           IN  /\ DOMAIN dates = 1..request.count
               /\ \A k \in DOMAIN dates :
                    /\ dates[k] \in CalendarDates
                    /\ months = 0 => DayNumber(dates[k]) = DayNumber(first) + 7 * (k - 1)
                    /\ months # 0 =>
                         /\ MonthNumber(dates[k]) = MonthNumber(first) + months * (k - 1)
                         /\ LET length == DaysIn(dates[k][1], dates[k][2])
                            IN  dates[k][3] = IF first[3] < length THEN first[3] ELSE length
  <1>1. PICK months \in Nat : months = MonthsPerPeriod[request.period]
    BY DEF MonthsPerPeriod
  <1>2. PICK dates : dates = RecurringDates(request)
    OBVIOUS
  <1>3. PICK first \in CalendarDates : first = request.first
    OBVIOUS
  <1>4. /\ DOMAIN dates = 1..request.count
        /\ \A k \in 1..request.count :
             dates[k] = IF months = 0 THEN AddDate(first, 0, 7 * (k - 1))
                        ELSE AddMonths(first, months * (k - 1))
    BY <1>1, <1>2, <1>3 DEF RecurringDates
  <1>5. ASSUME NEW k \in 1..request.count
        PROVE  /\ dates[k] \in CalendarDates
               /\ months = 0 => DayNumber(dates[k]) = DayNumber(first) + 7 * (k - 1)
               /\ months # 0 =>
                    /\ MonthNumber(dates[k]) = MonthNumber(first) + months * (k - 1)
                    /\ LET length == DaysIn(dates[k][1], dates[k][2])
                       IN  dates[k][3] = IF first[3] < length THEN first[3] ELSE length
    <2>1. PICK back \in Nat : back = k - 1
      OBVIOUS
    <2>2. CASE months = 0
      <3>1. PICK days \in Nat : days = 7 * (k - 1)
        OBVIOUS
      <3>2. dates[k] = AddDate(first, 0, days)
        BY <1>4, <2>2, <3>1
      <3>3. QED
        BY <2>2, <3>1, <3>2, AddDateCounts
    <2>3. CASE months # 0
      <3>1. PICK later \in Nat : later = months * (k - 1)
        <4>1. months * back \in Nat
          OBVIOUS
        <4>2. QED
          BY <2>1, <4>1
      <3>2. dates[k] = AddMonths(first, later)
        BY <1>4, <2>3, <3>1
      <3>3. PICK date : date = AddMonths(first, later)
        OBVIOUS
      <3>4. /\ date \in CalendarDates
            /\ MonthNumber(date) = MonthNumber(first) + later
            /\ date[3] = IF first[3] < DaysIn(date[1], date[2]) THEN first[3] ELSE DaysIn(date[1], date[2])
        BY <3>3, AddMonthsClamps
      <3>5. QED
        BY <2>3, <3>1, <3>2, <3>3, <3>4
    <2>4. QED
      BY <2>2, <2>3
  <1>6. QED
    BY <1>1, <1>2, <1>3, <1>4, <1>5

-----------------------------------------------------------------------------
(***************************************************************************)
(* Sums.  SumFunctionOnSet is a fold, which is a recursive function of the *)
(* subsets of a set, and such a function is one that is chosen: first that *)
(* there is one, and that two of them say the same.                        *)
(***************************************************************************)

Chosen(S) == CHOOSE x \in S : TRUE

IsSum(g, f, S) ==
    g = [T \in SUBSET S |-> IF T = {} THEN 0 ELSE f[Chosen(T)] + g[T \ {Chosen(T)}]]

LEMMA SumChosen ==
    ASSUME NEW f, NEW S
    PROVE  SumFunctionOnSet(f, S) = (CHOOSE g : IsSum(g, f, S))[S]
  BY DEF SumFunctionOnSet, FoldFunctionOnSet, MapThenFoldSet, IsSum, Chosen

LEMMA ChosenIn == ASSUME NEW S, S # {} PROVE Chosen(S) \in S
  BY DEF Chosen

\* A function that does for the subsets of up to n elements does for one more.
SumUpTo(g, f, S, n) ==
    \A T \in SUBSET S :
        Cardinality(T) <= n => g[T] = IF T = {} THEN 0 ELSE f[Chosen(T)] + g[T \ {Chosen(T)}]

LEMMA SumUpToNext ==
    ASSUME NEW f, NEW S, IsFiniteSet(S), NEW n \in Nat, NEW g, SumUpTo(g, f, S, n)
    PROVE  \E h : SumUpTo(h, f, S, n + 1)
  <1> DEFINE h == [T \in SUBSET S |-> IF T = {} THEN 0 ELSE f[Chosen(T)] + g[T \ {Chosen(T)}]]
  <1>1. \A T \in SUBSET S : h[T] = IF T = {} THEN 0 ELSE f[Chosen(T)] + g[T \ {Chosen(T)}]
    OBVIOUS
  <1> HIDE DEF h
  <1>2. \A T \in SUBSET S : Cardinality(T) <= n => h[T] = g[T]
    BY <1>1 DEF SumUpTo
  <1>3. ASSUME NEW T \in SUBSET S, Cardinality(T) <= n + 1, T # {}
        PROVE  h[T \ {Chosen(T)}] = g[T \ {Chosen(T)}]
    <2>1. Chosen(T) \in T
      BY <1>3, ChosenIn
    <2>2. IsFiniteSet(T) /\ Cardinality(T) \in Nat
      BY FS_Subset, FS_CardinalityType
    <2>3. Cardinality(T \ {Chosen(T)}) = Cardinality(T) - 1
      BY <2>1, <2>2, FS_RemoveElement
    <2>4. Cardinality(T \ {Chosen(T)}) <= n
      BY <1>3, <2>2, <2>3
    <2>5. QED
      BY <1>2, <2>4
  <1>4. SumUpTo(h, f, S, n + 1)
    BY <1>1, <1>3 DEF SumUpTo
  <1>5. QED
    BY <1>4

LEMMA SumExists ==
    ASSUME NEW f, NEW S, IsFiniteSet(S)
    PROVE  \E g : IsSum(g, f, S)
  <1> DEFINE G == {n \in Nat : \E g : SumUpTo(g, f, S, n)}
  <1>1. 0 \in G
    <2>1. \A T \in SUBSET S : Cardinality(T) <= 0 => T = {}
      <3>1. \A T \in SUBSET S : Cardinality(T) \in Nat /\ (Cardinality(T) = 0 <=> T = {})
        BY FS_Subset, FS_CardinalityType, FS_EmptySet
      <3>2. QED
        BY <3>1
    <2>2. SumUpTo([T \in SUBSET S |-> 0], f, S, 0)
      BY <2>1 DEF SumUpTo
    <2>3. QED
      BY <2>2
  <1>2. PICK n \in Nat : n = Cardinality(S)
    BY FS_CardinalityType
  <1>3. ASSUME NEW i \in 1..n, i - 1 \in G PROVE i \in G
    <2>1. i - 1 \in Nat /\ (i - 1) + 1 = i /\ i \in Nat
      OBVIOUS
    <2>2. PICK g : SumUpTo(g, f, S, i - 1)
      BY <1>3
    <2>3. \E h : SumUpTo(h, f, S, (i - 1) + 1)
      BY <2>1, <2>2, SumUpToNext
    <2>4. QED
      BY <2>1, <2>3
  <1>4. n \in G
    <2> HIDE DEF G
    <2>1. \A i \in 0..n : i \in G
      BY <1>1, <1>3, UpTo
    <2>2. QED
      BY <2>1
  <1>5. PICK g : SumUpTo(g, f, S, n)
    BY <1>4
  <1> DEFINE h == [T \in SUBSET S |-> g[T]]
  <1>6. \A T \in SUBSET S : Cardinality(T) <= n
    BY <1>2, FS_Subset
  <1>7. \A T \in SUBSET S : h[T] = IF T = {} THEN 0 ELSE f[Chosen(T)] + h[T \ {Chosen(T)}]
    BY <1>5, <1>6 DEF SumUpTo
  <1>8. IsSum(h, f, S)
    BY <1>7 DEF IsSum
  <1>9. QED
    BY <1>8

\* Two of them agree, also when they are made for different sets, where the
\* functions that are summed agree.
LEMMA SumsAgree ==
    ASSUME NEW g, NEW h, NEW f1, NEW f2, NEW S1, NEW S2, NEW T, IsFiniteSet(T),
           T \subseteq S1, T \subseteq S2, IsSum(g, f1, S1), IsSum(h, f2, S2),
           \A x \in T : f1[x] = f2[x]
    PROVE  g[T] = h[T]
  <1> DEFINE G == {U \in SUBSET T : g[U] = h[U]}
  <1>1. ASSUME NEW U \in SUBSET T, \A V \in SUBSET U : V # U => V \in G
        PROVE  U \in G
    <2>1. /\ g[U] = IF U = {} THEN 0 ELSE f1[Chosen(U)] + g[U \ {Chosen(U)}]
          /\ h[U] = IF U = {} THEN 0 ELSE f2[Chosen(U)] + h[U \ {Chosen(U)}]
      BY DEF IsSum
    <2>2. CASE U = {}
      BY <2>1, <2>2
    <2>3. CASE U # {}
      <3>1. Chosen(U) \in U
        BY <2>3, ChosenIn
      <3>2. U \ {Chosen(U)} \in G
        BY <1>1, <3>1
      <3>3. f1[Chosen(U)] = f2[Chosen(U)]
        BY <3>1
      <3>4. QED
        BY <2>1, <2>3, <3>2, <3>3
    <2>4. QED
      BY <2>2, <2>3
  <1>2. \A U \in SUBSET T : U \in G
    <2> HIDE DEF G
    <2>1. QED
      BY <1>1, SubsetInduction
  <1>3. QED
    BY <1>2

\* A name for the sum, and the equations it keeps.
SumOf(f, S) == SumFunctionOnSet(f, S)

LEMMA SumEmpty == ASSUME NEW f PROVE SumOf(f, {}) = 0
  <1>1. IsFiniteSet({})
    BY FS_EmptySet
  <1>2. IsSum(CHOOSE g : IsSum(g, f, {}), f, {})
    BY <1>1, SumExists
  <1>3. PICK g : IsSum(g, f, {}) /\ SumOf(f, {}) = g[{}]
    BY <1>2, SumChosen DEF SumOf
  <1>4. QED
    BY <1>3 DEF IsSum

LEMMA SumIs ==
    ASSUME NEW f, NEW S, IsFiniteSet(S)
    PROVE  \E g : IsSum(g, f, S) /\ SumOf(f, S) = g[S]
  <1>1. IsSum(CHOOSE g : IsSum(g, f, S), f, S)
    BY SumExists
  <1>2. QED
    BY <1>1, SumChosen DEF SumOf

LEMMA SumSame ==
    ASSUME NEW f1, NEW f2, NEW S, IsFiniteSet(S), \A x \in S : f1[x] = f2[x]
    PROVE  SumOf(f1, S) = SumOf(f2, S)
  <1>1. PICK g : IsSum(g, f1, S) /\ SumOf(f1, S) = g[S]
    BY SumIs
  <1>2. PICK h : IsSum(h, f2, S) /\ SumOf(f2, S) = h[S]
    BY SumIs
  <1>3. PICK T : T = S
    OBVIOUS
  <1>4. T \subseteq S /\ IsFiniteSet(T) /\ \A x \in T : f1[x] = f2[x]
    BY <1>3
  <1>5. g[T] = h[T]
    BY <1>1, <1>2, <1>4, SumsAgree
  <1>6. QED
    BY <1>1, <1>2, <1>3, <1>5

LEMMA SumFirst ==
    ASSUME NEW f, NEW S, IsFiniteSet(S), S # {}
    PROVE  SumOf(f, S) = f[Chosen(S)] + SumOf(f, S \ {Chosen(S)})
  <1>1. PICK g : IsSum(g, f, S) /\ SumOf(f, S) = g[S]
    BY SumIs
  <1>2. PICK T : T = S \ {Chosen(S)}
    OBVIOUS
  <1>3. IsFiniteSet(T) /\ T \subseteq S
    BY <1>2, FS_RemoveElement
  <1>4. PICK h : IsSum(h, f, T) /\ SumOf(f, T) = h[T]
    BY <1>3, SumIs
  <1>5. g[T] = h[T]
    BY <1>1, <1>3, <1>4, SumsAgree
  <1>6. g[S] = f[Chosen(S)] + g[T]
    BY <1>1, <1>2 DEF IsSum
  <1>7. QED
    BY <1>1, <1>2, <1>4, <1>5, <1>6

\* Whichever element comes first.
Commutes(f, S) ==
    {T \in SUBSET S : SumOf(f, T) \in Int /\ \A x \in T : SumOf(f, T) = f[x] + SumOf(f, T \ {x})}

LEMMA SumCommutes ==
    ASSUME NEW f, NEW S, IsFiniteSet(S), \A x \in S : f[x] \in Int
    PROVE  \A T \in SUBSET S : T \in Commutes(f, S)
  <1>1. ASSUME NEW T \in SUBSET S, \A U \in SUBSET T : U # T => U \in Commutes(f, S)
        PROVE  T \in Commutes(f, S)
    <2>1. CASE T = {}
      BY <2>1, SumEmpty DEF Commutes
    <2>2. CASE T # {}
      <3>1. PICK p : p = Chosen(T) /\ p \in T
        BY <2>2, ChosenIn
      <3>2. IsFiniteSet(T)
        BY FS_Subset
      <3>3. SumOf(f, T) = f[p] + SumOf(f, T \ {p})
        BY <2>2, <3>1, <3>2, SumFirst
      <3>4. SumOf(f, T \ {p}) \in Int /\ f[p] \in Int
        BY <1>1, <3>1 DEF Commutes
      <3>5. ASSUME NEW x \in T PROVE SumOf(f, T) = f[x] + SumOf(f, T \ {x})
        <4>1. CASE x = p
          BY <3>3, <4>1
        <4>2. CASE x # p
          <5>1. SumOf(f, T \ {p}) = f[x] + SumOf(f, (T \ {p}) \ {x})
            <6>1. T \ {p} \in SUBSET T /\ T \ {p} # T /\ x \in T \ {p}
              BY <3>1, <4>2
            <6>2. QED
              BY <1>1, <6>1 DEF Commutes
          <5>2. SumOf(f, T \ {x}) = f[p] + SumOf(f, (T \ {x}) \ {p})
            <6>1. T \ {x} \in SUBSET T /\ T \ {x} # T /\ p \in T \ {x}
              BY <3>1, <4>2
            <6>2. QED
              BY <1>1, <6>1 DEF Commutes
          <5>3. (T \ {p}) \ {x} = (T \ {x}) \ {p}
            OBVIOUS
          <5>4. SumOf(f, (T \ {p}) \ {x}) \in Int /\ f[x] \in Int
            <6>1. (T \ {p}) \ {x} \in SUBSET T /\ (T \ {p}) \ {x} # T
              BY <3>1
            <6>2. QED
              BY <1>1, <6>1 DEF Commutes
          <5>5. PICK rest \in Int : rest = SumOf(f, (T \ {p}) \ {x})
            BY <5>4
          <5>6. SumOf(f, T) = f[p] + (f[x] + rest) /\ SumOf(f, T \ {x}) = f[p] + rest
            BY <3>3, <5>1, <5>2, <5>3, <5>5
          <5>7. QED
            BY <3>4, <5>4, <5>5, <5>6
        <4>3. QED
          BY <4>1, <4>2
      <3>6. SumOf(f, T) \in Int
        BY <3>3, <3>4
      <3>7. QED
        BY <3>5, <3>6 DEF Commutes
    <2>3. QED
      BY <2>1, <2>2
  <1>2. QED
    BY <1>1, SubsetInduction

LEMMA SumInt ==
    ASSUME NEW f, NEW S, IsFiniteSet(S), \A x \in S : f[x] \in Int
    PROVE  SumOf(f, S) \in Int
  BY SumCommutes DEF Commutes

LEMMA SumWithout ==
    ASSUME NEW f, NEW S, IsFiniteSet(S), \A x \in S : f[x] \in Int, NEW x \in S
    PROVE  SumOf(f, S) = f[x] + SumOf(f, S \ {x})
  BY SumCommutes DEF Commutes

LEMMA SumUnion ==
    ASSUME NEW f, NEW S, NEW T, IsFiniteSet(S), IsFiniteSet(T), S \intersect T = {},
           \A x \in S \union T : f[x] \in Int
    PROVE  SumOf(f, S \union T) = SumOf(f, S) + SumOf(f, T)
  <1> DEFINE G == {U \in SUBSET T : SumOf(f, S \union U) = SumOf(f, S) + SumOf(f, U)}
  <1>1. SumOf(f, S) \in Int
    BY SumInt
  <1>2. ASSUME NEW U \in SUBSET T, \A V \in SUBSET U : V # U => V \in G
        PROVE  U \in G
    <2>1. CASE U = {}
      <3>1. S \union U = S /\ SumOf(f, U) = 0
        BY <2>1, SumEmpty
      <3>2. PICK sum \in Int : sum = SumOf(f, S)
        BY <1>1
      <3>3. sum + 0 = sum
        OBVIOUS
      <3>4. SumOf(f, S \union U) = SumOf(f, S) + SumOf(f, U)
        BY <3>1, <3>2, <3>3
      <3>5. QED
        BY <3>4
    <2>2. CASE U # {}
      <3>1. PICK x : x \in U /\ x \notin S
        BY <2>2
      <3>2. SumOf(f, S \union (U \ {x})) = SumOf(f, S) + SumOf(f, U \ {x})
        BY <1>2, <3>1
      <3>3. IsFiniteSet(S \union U) /\ IsFiniteSet(U) /\ IsFiniteSet(U \ {x})
        BY FS_Subset, FS_Union
      <3>4. SumOf(f, S \union U) = f[x] + SumOf(f, (S \union U) \ {x})
        BY <3>1, <3>3, SumWithout
      <3>5. SumOf(f, U) = f[x] + SumOf(f, U \ {x})
        BY <3>1, <3>3, SumWithout
      <3>6. (S \union U) \ {x} = S \union (U \ {x})
        BY <3>1
      <3>7. f[x] \in Int /\ SumOf(f, U \ {x}) \in Int
        BY <3>1, <3>3, SumInt
      <3>8. PICK s, r \in Int : s = SumOf(f, S) /\ r = SumOf(f, U \ {x})
        BY <1>1, <3>7
      <3>9. SumOf(f, S \union U) = f[x] + (s + r) /\ SumOf(f, U) = f[x] + r
        BY <3>2, <3>4, <3>5, <3>6, <3>8
      <3>10. SumOf(f, S \union U) = s + SumOf(f, U)
        BY <3>7, <3>8, <3>9
      <3>11. SumOf(f, S \union U) = SumOf(f, S) + SumOf(f, U)
        BY <3>8, <3>10
      <3>12. QED
        BY <3>11
    <2>3. QED
      BY <2>1, <2>2
  <1>3. \A U \in SUBSET T : U \in G
    <2> HIDE DEF G
    <2>1. QED
      BY <1>2, SubsetInduction
  <1>4. QED
    BY <1>3

LEMMA SumOfZeros ==
    ASSUME NEW f, NEW S, IsFiniteSet(S), \A x \in S : f[x] = 0
    PROVE  SumOf(f, S) = 0
  <1> DEFINE G == {U \in SUBSET S : SumOf(f, U) = 0}
  <1>1. ASSUME NEW U \in SUBSET S, \A V \in SUBSET U : V # U => V \in G
        PROVE  U \in G
    <2>1. CASE U = {}
      BY <2>1, SumEmpty
    <2>2. CASE U # {}
      <3>1. Chosen(U) \in U /\ IsFiniteSet(U)
        BY <2>2, ChosenIn, FS_Subset
      <3>2. SumOf(f, U) = f[Chosen(U)] + SumOf(f, U \ {Chosen(U)})
        BY <2>2, <3>1, SumFirst
      <3>3. SumOf(f, U \ {Chosen(U)}) = 0 /\ f[Chosen(U)] = 0
        BY <1>1, <3>1
      <3>4. QED
        BY <3>2, <3>3
    <2>3. QED
      BY <2>1, <2>2
  <1>2. \A U \in SUBSET S : U \in G
    <2> HIDE DEF G
    <2>1. QED
      BY <1>1, SubsetInduction
  <1>3. QED
    BY <1>2

\* What is zero can be left out.
LEMMA SumWithoutZeros ==
    ASSUME NEW f, NEW S, NEW T, IsFiniteSet(S), T \subseteq S,
           \A x \in S : f[x] \in Int, \A x \in S \ T : f[x] = 0
    PROVE  SumOf(f, S) = SumOf(f, T)
  <1>1. IsFiniteSet(T) /\ IsFiniteSet(S \ T) /\ T \intersect (S \ T) = {} /\ T \union (S \ T) = S
    BY FS_Subset
  <1>2. SumOf(f, S) = SumOf(f, T) + SumOf(f, S \ T)
    <2>1. SumOf(f, T \union (S \ T)) = SumOf(f, T) + SumOf(f, S \ T)
      BY <1>1, SumUnion
    <2>2. QED
      BY <1>1, <2>1
  <1>3. SumOf(f, S \ T) = 0 /\ SumOf(f, T) \in Int
    BY <1>1, SumOfZeros, SumInt
  <1>4. QED
    BY <1>2, <1>3

LEMMA SumNegated ==
    ASSUME NEW f1, NEW f2, NEW S, IsFiniteSet(S),
           \A x \in S : f1[x] \in Int /\ f2[x] = 0 - f1[x]
    PROVE  SumOf(f2, S) = 0 - SumOf(f1, S)
  <1> DEFINE G == {U \in SUBSET S : SumOf(f2, U) = 0 - SumOf(f1, U)}
  <1>1. ASSUME NEW U \in SUBSET S, \A V \in SUBSET U : V # U => V \in G
        PROVE  U \in G
    <2>1. CASE U = {}
      BY <2>1, SumEmpty
    <2>2. CASE U # {}
      <3>1. PICK x : x = Chosen(U) /\ x \in U
        BY <2>2, ChosenIn
      <3>2. IsFiniteSet(U) /\ IsFiniteSet(U \ {x})
        BY FS_Subset
      <3>3. SumOf(f1, U) = f1[x] + SumOf(f1, U \ {x}) /\ SumOf(f2, U) = f2[x] + SumOf(f2, U \ {x})
        BY <2>2, <3>1, <3>2, SumFirst
      <3>4. SumOf(f2, U \ {x}) = 0 - SumOf(f1, U \ {x})
        BY <1>1, <3>1
      <3>5. f1[x] \in Int /\ f2[x] = 0 - f1[x] /\ SumOf(f1, U \ {x}) \in Int
        BY <3>1, <3>2, SumInt
      <3>6. QED
        BY <3>3, <3>4, <3>5
    <2>3. QED
      BY <2>1, <2>2
  <1>2. \A U \in SUBSET S : U \in G
    <2> HIDE DEF G
    <2>1. QED
      BY <1>1, SubsetInduction
  <1>3. QED
    BY <1>2

\* A sum of sums over sets that have nothing in common is one sum.
LEMMA SumOfSums ==
    ASSUME NEW f, NEW A, IsFiniteSet(A), NEW parts,
           \A a \in A : IsFiniteSet(parts[a]) /\ \A x \in parts[a] : f[x] \in Int,
           \A a, b \in A : a # b => parts[a] \intersect parts[b] = {},
           NEW sums, \A a \in A : sums[a] = SumOf(f, parts[a]),
           NEW all, all = UNION {parts[a] : a \in A}
    PROVE  IsFiniteSet(all) /\ SumOf(sums, A) = SumOf(f, all)
  <1> DEFINE All(B) == UNION {parts[a] : a \in B}
  <1> DEFINE G == {B \in SUBSET A : IsFiniteSet(All(B)) /\ SumOf(sums, B) = SumOf(f, All(B))}
  <1>1. ASSUME NEW B \in SUBSET A, \A C \in SUBSET B : C # B => C \in G
        PROVE  B \in G
    <2>1. CASE B = {}
      <3>1. All(B) = {}
        BY <2>1
      <3>2. QED
        BY <2>1, <3>1, SumEmpty, FS_EmptySet
    <2>2. CASE B # {}
      <3>1. PICK a : a = Chosen(B) /\ a \in B
        BY <2>2, ChosenIn
      <3>2. IsFiniteSet(B)
        BY FS_Subset
      <3>3. SumOf(sums, B) = sums[a] + SumOf(sums, B \ {a})
        BY <2>2, <3>1, <3>2, SumFirst
      <3>4. IsFiniteSet(All(B \ {a})) /\ SumOf(sums, B \ {a}) = SumOf(f, All(B \ {a}))
        BY <1>1, <3>1
      <3>5. All(B) = parts[a] \union All(B \ {a}) /\ parts[a] \intersect All(B \ {a}) = {}
        <4>1. All(B) = parts[a] \union All(B \ {a})
          BY <3>1
        <4>2. parts[a] \intersect All(B \ {a}) = {}
          BY <3>1
        <4>3. QED
          BY <4>1, <4>2
      <3>6. IsFiniteSet(parts[a]) /\ \A x \in parts[a] \union All(B \ {a}) : f[x] \in Int
        BY <3>1
      <3>7. PICK part, others : part = parts[a] /\ others = All(B \ {a})
        OBVIOUS
      <3> HIDE DEF All
      <3>8. IsFiniteSet(part) /\ IsFiniteSet(others) /\ All(B) = part \union others
        BY <3>4, <3>5, <3>6, <3>7
      <3>9. part \intersect others = {} /\ \A x \in part \union others : f[x] \in Int
        BY <3>5, <3>6, <3>7
      <3>10. SumOf(f, part \union others) = SumOf(f, part) + SumOf(f, others)
        BY <3>8, <3>9, SumUnion
      <3>11. IsFiniteSet(All(B))
        BY <3>8, FS_Union
      <3>12. SumOf(sums, B) = SumOf(f, All(B))
        BY <3>1, <3>3, <3>4, <3>7, <3>8, <3>10
      <3>13. QED
        BY <3>11, <3>12
    <2>3. QED
      BY <2>1, <2>2
  <1>2. \A B \in SUBSET A : B \in G
    <2> HIDE DEF G
    <2>1. QED
      BY <1>1, SubsetInduction
  <1>3. QED
    BY <1>2

-----------------------------------------------------------------------------
(***************************************************************************)
(* The events of a forecast in their order.  The place of a key is the     *)
(* number of those before it; no two have the same, so there is a key at   *)
(* every place, and the sequence that is chosen is one with all of them.   *)
(***************************************************************************)

LEMMA BeforeOrders ==
    ASSUME NEW K, K \subseteq Int \X {0, 1}
    PROVE  /\ \A a \in K : ~Before(a, a)
           /\ \A a, b, c \in K : Before(a, b) /\ Before(b, c) => Before(a, c)
           /\ \A a, b \in K : a # b => Before(a, b) \/ Before(b, a)
  <1>1. \A a \in K : a = <<a[1], a[2]>> /\ a[1] \in Int /\ a[2] \in Int
    OBVIOUS
  <1>2. \A a, b \in K : a # b => a[1] # b[1] \/ a[2] # b[2]
    BY <1>1
  <1>3. QED
    BY <1>1, <1>2 DEF Before

Earlier(K, k) == {x \in K : Before(x, k)}
Place(K, k) == Cardinality(Earlier(K, k)) + 1

LEMMA PlaceInOrder ==
    ASSUME NEW K, K \subseteq Int \X {0, 1}, IsFiniteSet(K)
    PROVE  /\ \A k \in K : Place(K, k) \in 1..Cardinality(K)
           /\ \A a, b \in K : Before(a, b) => Place(K, a) < Place(K, b)
           /\ \A a, b \in K : Place(K, a) = Place(K, b) => a = b
  <1>1. Cardinality(K) \in Nat
    BY FS_CardinalityType
  <1>2. ASSUME NEW k \in K
        PROVE  /\ IsFiniteSet(Earlier(K, k)) /\ Cardinality(Earlier(K, k)) \in Nat
               /\ Place(K, k) \in 1..Cardinality(K)
    <2>1. PICK E : E = Earlier(K, k)
      OBVIOUS
    <2>2. E \in SUBSET K /\ k \notin E
      BY <2>1, BeforeOrders DEF Earlier
    <2>3. IsFiniteSet(E) /\ Cardinality(E) <= Cardinality(K) /\ Cardinality(E) # Cardinality(K)
      BY <2>2, FS_Subset
    <2>4. Cardinality(E) \in Nat
      BY <2>3, FS_CardinalityType
    <2>5. Cardinality(E) + 1 \in 1..Cardinality(K)
      BY <1>1, <2>3, <2>4
    <2>6. QED
      BY <2>1, <2>3, <2>4, <2>5 DEF Place
  <1>3. ASSUME NEW a \in K, NEW b \in K, Before(a, b) PROVE Place(K, a) < Place(K, b)
    <2>1. PICK E, F : E = Earlier(K, a) /\ F = Earlier(K, b)
      OBVIOUS
    <2>2. E \subseteq F
      BY <1>3, <2>1, BeforeOrders DEF Earlier
    <2>3. a \in F /\ a \notin E
      BY <1>3, <2>1, BeforeOrders DEF Earlier
    <2>4. IsFiniteSet(F) /\ Cardinality(E) \in Nat /\ Cardinality(F) \in Nat
      BY <1>2, <2>1
    <2>5. Cardinality(E) <= Cardinality(F) /\ Cardinality(E) # Cardinality(F)
      BY <2>2, <2>3, <2>4, FS_Subset
    <2>6. Cardinality(E) + 1 < Cardinality(F) + 1
      BY <2>4, <2>5
    <2>7. QED
      BY <2>1, <2>6 DEF Place
  <1>4. ASSUME NEW a \in K, NEW b \in K, Place(K, a) = Place(K, b) PROVE a = b
    <2>1. Place(K, a) \in Int /\ Place(K, b) \in Int
      BY <1>2
    <2>2. ~(Place(K, a) < Place(K, b)) /\ ~(Place(K, b) < Place(K, a))
      BY <1>4, <2>1
    <2>3. QED
      BY <1>3, <2>2, BeforeOrders
  <1>5. QED
    BY <1>2, <1>3, <1>4

InOrder(K, s) ==
    /\ s \in [1..Cardinality(K) -> K]
    /\ \A i, j \in DOMAIN s : i < j => Before(s[i], s[j])

LEMMA OrderExists ==
    ASSUME NEW K, K \subseteq Int \X {0, 1}, IsFiniteSet(K)
    PROVE  \E s : InOrder(K, s)
  <1>1. PICK n \in Nat : n = Cardinality(K)
    BY FS_CardinalityType
  <1> DEFINE place == [k \in K |-> Place(K, k)]
  <1>2. place \in Injection(K, 1..n)
    <2>1. place \in [K -> 1..n]
      BY <1>1, PlaceInOrder
    <2>2. \A a, b \in K : place[a] = place[b] => a = b
      BY PlaceInOrder
    <2> HIDE DEF place
    <2>3. QED
      BY <2>1, <2>2, Fun_IsInj
  <1>3. IsFiniteSet(1..n) /\ Cardinality(1..n) = n
    BY FS_Interval
  <1>4. place \in Surjection(K, 1..n)
    <2> HIDE DEF place
    <2>1. QED
      BY <1>1, <1>2, <1>3, FS_Injection
  <1>5. \A i \in 1..n : \E k \in K : place[k] = i
    <2> HIDE DEF place
    <2>1. QED
      BY <1>4, Fun_SurjectionProperties
  <1> DEFINE s == [i \in 1..n |-> CHOOSE k \in K : place[k] = i]
  <1>6. \A i \in 1..n : s[i] \in K /\ place[s[i]] = i
    BY <1>5
  <1>7. s \in [1..n -> K] /\ DOMAIN s = 1..n
    BY <1>6
  <1> HIDE DEF s
  <1>8. ASSUME NEW i \in 1..n, NEW j \in 1..n, i < j PROVE Before(s[i], s[j])
    <2>1. s[i] \in K /\ s[j] \in K /\ Place(K, s[i]) = i /\ Place(K, s[j]) = j
      BY <1>6
    <2>2. s[i] # s[j] /\ ~(Place(K, s[j]) < Place(K, s[i]))
      BY <1>8, <2>1
    <2>3. ~Before(s[j], s[i])
      BY <2>1, <2>2, PlaceInOrder
    <2>4. QED
      BY <2>1, <2>2, <2>3, BeforeOrders
  <1>9. InOrder(K, s)
    BY <1>1, <1>7, <1>8 DEF InOrder
  <1>10. QED
    BY <1>9

\* Every key has its one place in the sequence that is chosen.
LEMMA SortedKeys ==
    ASSUME NEW K, K \subseteq Int \X {0, 1}, IsFiniteSet(K)
    PROVE  /\ InOrder(K, Sorted(K))
           /\ \A k \in K : \E i \in 1..Cardinality(K) : Sorted(K)[i] = k
           /\ \A i, j \in 1..Cardinality(K) : Before(Sorted(K)[i], Sorted(K)[j]) => i < j
  <1>1. InOrder(K, Sorted(K))
    BY OrderExists DEF InOrder, Sorted
  <1>2. PICK s : s = Sorted(K) /\ InOrder(K, s)
    BY <1>1
  <1>3. PICK n \in Nat : n = Cardinality(K)
    BY FS_CardinalityType
  <1>4. s \in [1..n -> K] /\ \A i, j \in 1..n : i < j => Before(s[i], s[j])
    BY <1>2, <1>3 DEF InOrder
  <1>5. \A i \in 1..n : s[i] \in K
    BY <1>4
  <1>6. ASSUME NEW i \in 1..n, NEW j \in 1..n, Before(s[i], s[j]) PROVE i < j
    <2>1. i # j
      BY <1>5, <1>6, BeforeOrders
    <2>2. ~Before(s[j], s[i])
      BY <1>5, <1>6, BeforeOrders
    <2>3. ~(j < i)
      BY <1>4, <2>2
    <2>4. QED
      BY <2>1, <2>3
  <1>7. \A i, j \in 1..n : s[i] = s[j] => i = j
    <2>1. SUFFICES ASSUME NEW i \in 1..n, NEW j \in 1..n, s[i] = s[j], i < j PROVE FALSE
      OBVIOUS
    <2>2. Before(s[i], s[i]) /\ s[i] \in K
      BY <1>4, <1>5, <2>1
    <2>3. QED
      BY <2>2, BeforeOrders
  <1>8. s \in Injection(1..n, K)
    BY <1>4, <1>7, Fun_IsInj
  <1>9. IsFiniteSet(1..n) /\ Cardinality(1..n) = n
    BY FS_Interval
  <1>10. s \in Surjection(1..n, K)
    BY <1>3, <1>8, <1>9, FS_Injection
  <1>11. \A k \in K : \E i \in 1..n : s[i] = k
    BY <1>10, Fun_SurjectionProperties
  <1>12. QED
    BY <1>1, <1>2, <1>3, <1>6, <1>11

-----------------------------------------------------------------------------
(***************************************************************************)
(* The forecast.                                                           *)
(***************************************************************************)

LEMMA LedgerFacts ==
    ASSUME NEW ledger, Ledger(ledger)
    PROVE  /\ IsFiniteSet(DOMAIN ledger.accounts)
           /\ IsFiniteSet(DOMAIN ledger.transactions)
           /\ IsFiniteSet(DOMAIN ledger.obligations)
           /\ \A t \in DOMAIN ledger.transactions :
                  /\ ledger.transactions[t].date \in Int
                  /\ Amounts(ledger.transactions)[t] \in Int
           /\ \A o \in DOMAIN ledger.obligations :
                  /\ ledger.obligations[o].amount \in Nat
                  /\ ledger.obligations[o].due \in Int
                  /\ Amounts(ledger.obligations)[o] = ledger.obligations[o].amount
           /\ ledger.asOf \in Int /\ ledger.through \in Int /\ ledger.asOf <= ledger.through
  BY DEF Ledger, Amounts

LEMMA SignedIs ==
    ASSUME NEW ledger, Ledger(ledger), NEW o \in DOMAIN ledger.obligations,
           NEW obligation, obligation = ledger.obligations[o]
    PROVE  /\ Signed(ledger)[o] \in Int
           /\ obligation.type = "receivable" => Signed(ledger)[o] = obligation.amount
           /\ obligation.type = "payable" => Signed(ledger)[o] = 0 - obligation.amount
           /\ Signed(ledger)[o] # 0 =>
                  obligation.type \in {"payable", "receivable"} /\ obligation.amount > 0
  <1>1. obligation.amount \in Nat
    BY LedgerFacts
  <1>2. Signed(ledger)[o] =
            CASE obligation.type = "receivable" -> obligation.amount
              [] obligation.type = "payable" -> 0 - obligation.amount
              [] OTHER -> 0
    BY DEF Signed
  <1>3. CASE obligation.type = "receivable"
    BY <1>1, <1>2, <1>3
  <1>4. CASE obligation.type = "payable"
    BY <1>1, <1>2, <1>4
  <1>5. CASE obligation.type \notin {"payable", "receivable"}
    BY <1>2, <1>5
  <1>6. QED
    BY <1>3, <1>4, <1>5

\* When an obligation is entered, and under which key.
LEMMA KeyIs ==
    ASSUME NEW ledger, Ledger(ledger), NEW o \in DOMAIN ledger.obligations,
           NEW due, due = ledger.obligations[o].due
    PROVE  /\ due \in Int
           /\ due < ledger.asOf => Key(ledger, o) = <<ledger.asOf, 0>>
           /\ due >= ledger.asOf => Key(ledger, o) = <<due, 1>>
           /\ ForecastDate(ledger, o) = Key(ledger, o)[1]
           /\ Key(ledger, o) \in Int \X {0, 1}
  <1>1. due \in Int /\ ledger.asOf \in Int
    BY LedgerFacts
  <1>2. CASE due < ledger.asOf
    BY <1>1, <1>2 DEF Key, ForecastDate, Overdue
  <1>3. CASE due >= ledger.asOf
    BY <1>1, <1>3 DEF Key, ForecastDate, Overdue
  <1>4. QED
    BY <1>1, <1>2, <1>3

LEMMA EnteredIs ==
    ASSUME NEW ledger, Ledger(ledger), NEW currency, NEW o
    PROVE  o \in Entered(ledger, currency) <=>
               /\ o \in DOMAIN ledger.obligations
               /\ ledger.obligations[o].currency = currency
               /\ ledger.obligations[o].status \notin {"paid", "cancelled"}
               /\ ledger.obligations[o].amount > 0
               /\ ledger.obligations[o].type \in {"payable", "receivable"}
               /\ Key(ledger, o)[1] <= ledger.through
  <1>1. o \in DOMAIN ledger.obligations => ForecastDate(ledger, o) = Key(ledger, o)[1]
    BY KeyIs
  <1>2. QED
    BY <1>1 DEF Entered, Considered

KeysOf(ledger, currency) == {Key(ledger, o) : o \in Entered(ledger, currency)}

LEMMA KeysFinite ==
    ASSUME NEW ledger, Ledger(ledger), NEW currency
    PROVE  /\ Entered(ledger, currency) \subseteq DOMAIN ledger.obligations
           /\ IsFiniteSet(Entered(ledger, currency))
           /\ KeysOf(ledger, currency) \subseteq Int \X {0, 1}
           /\ IsFiniteSet(KeysOf(ledger, currency))
  <1>1. PICK E, K : E = Entered(ledger, currency) /\ K = KeysOf(ledger, currency)
    OBVIOUS
  <1>2. E \in SUBSET DOMAIN ledger.obligations
    BY <1>1, EnteredIs
  <1>3. IsFiniteSet(E)
    BY <1>2, LedgerFacts, FS_Subset
  <1> DEFINE keyed == [o \in E |-> Key(ledger, o)]
  <1>4. K = {Key(ledger, o) : o \in E}
    BY <1>1 DEF KeysOf
  <1>5. keyed \in Surjection(E, K)
    <2>1. keyed \in [E -> K] /\ \A k \in K : \E o \in E : keyed[o] = k
      BY <1>4
    <2> HIDE DEF keyed
    <2>2. QED
      BY <2>1, Fun_IsSurj
  <1>6. IsFiniteSet(K)
    <2> HIDE DEF keyed
    <2>1. QED
      BY <1>3, <1>5, FS_Surjection
  <1>7. K \subseteq Int \X {0, 1}
    BY <1>2, <1>4, KeyIs
  <1>8. QED
    BY <1>1, <1>2, <1>3, <1>6, <1>7

\* The days of the events: n of them, in order, one for each key.
LEMMA DatesAre ==
    ASSUME NEW ledger, Ledger(ledger), NEW currency, NEW dates, dates = Dates(ledger, currency)
    PROVE  \E n \in Nat :
               /\ Len(dates) = n /\ DOMAIN dates = 1..n
               /\ \A i \in 1..n : dates[i] \in KeysOf(ledger, currency)
               /\ \A i, j \in 1..n : i < j => Before(dates[i], dates[j])
               /\ \A i, j \in 1..n : Before(dates[i], dates[j]) => i < j
               /\ \A k \in KeysOf(ledger, currency) : \E i \in 1..n : dates[i] = k
  <1>1. PICK K : K = KeysOf(ledger, currency)
    OBVIOUS
  <1>2. K \subseteq Int \X {0, 1} /\ IsFiniteSet(K)
    BY <1>1, KeysFinite
  <1>3. dates = Sorted(K)
    BY <1>1 DEF Dates, KeysOf
  <1>4. PICK n \in Nat : n = Cardinality(K)
    BY <1>2, FS_CardinalityType
  <1>5. /\ InOrder(K, dates)
        /\ \A k \in K : \E i \in 1..n : dates[i] = k
        /\ \A i, j \in 1..n : Before(dates[i], dates[j]) => i < j
    BY <1>2, <1>3, <1>4, SortedKeys
  <1>6. dates \in [1..n -> K] /\ \A i, j \in DOMAIN dates : i < j => Before(dates[i], dates[j])
    BY <1>4, <1>5 DEF InOrder
  <1>7. DOMAIN dates = 1..n /\ \A i \in 1..n : dates[i] \in K
    BY <1>6
  <1>8. Len(dates) = n
    BY <1>6
  <1>9. QED
    BY <1>1, <1>5, <1>6, <1>7, <1>8

\* What the first i events add up to.
EnteredUpTo(ledger, currency, i) ==
    {o \in Entered(ledger, currency) : \E j \in 1..i : Dates(ledger, currency)[j] = Key(ledger, o)}

SignedUpTo(ledger, currency, i) == SumOf(Signed(ledger), EnteredUpTo(ledger, currency, i))

\* An event adds its receivables and takes its payables away.
LEMMA NextEvent ==
    ASSUME NEW ledger, Ledger(ledger), NEW currency, NEW dates, dates = Dates(ledger, currency),
           NEW i \in 1..Len(dates)
    PROVE  /\ SignedUpTo(ledger, currency, i - 1) \in Int
           /\ Total(ledger, currency, dates[i], "receivable") \in Int
           /\ Total(ledger, currency, dates[i], "payable") \in Int
           /\ SignedUpTo(ledger, currency, i) =
                  SignedUpTo(ledger, currency, i - 1)
                  + Total(ledger, currency, dates[i], "receivable")
                  - Total(ledger, currency, dates[i], "payable")
  <1>1. PICK E : E = Entered(ledger, currency)
    OBVIOUS
  <1>2. PICK f, a : f = Signed(ledger) /\ a = Amounts(ledger.obligations)
    OBVIOUS
  <1>3. PICK R : R = {o \in E : Key(ledger, o) = dates[i] /\ ledger.obligations[o].type = "receivable"}
    OBVIOUS
  <1>4. PICK P : P = {o \in E : Key(ledger, o) = dates[i] /\ ledger.obligations[o].type = "payable"}
    OBVIOUS
  <1>5. PICK B : B = EnteredUpTo(ledger, currency, i - 1)
    OBVIOUS
  <1>6. PICK C : C = EnteredUpTo(ledger, currency, i)
    OBVIOUS
  <1>7. E \subseteq DOMAIN ledger.obligations /\ IsFiniteSet(E)
    BY <1>1, KeysFinite
  <1>8. \A o \in E : ledger.obligations[o].type \in {"payable", "receivable"}
    BY <1>1, EnteredIs
  <1>9. PICK n \in Nat :
            /\ Len(dates) = n
            /\ \A k, j \in 1..n : k < j => Before(dates[k], dates[j])
            /\ \A k \in 1..n : dates[k] \in KeysOf(ledger, currency)
    BY DatesAre
  <1>10. \A j \in 1..(i - 1) : dates[j] # dates[i]
    <2>1. SUFFICES ASSUME NEW j \in 1..(i - 1), dates[j] = dates[i] PROVE FALSE
      OBVIOUS
    <2>2. j \in 1..n /\ i \in 1..n /\ j < i
      BY <1>9
    <2>3. Before(dates[i], dates[i])
      BY <1>9, <2>1, <2>2
    <2>4. dates[i] \in KeysOf(ledger, currency) /\ KeysOf(ledger, currency) \subseteq Int \X {0, 1}
      BY <1>9, <2>2, KeysFinite
    <2>5. QED
      BY <2>3, <2>4, BeforeOrders
  <1>11. /\ B = {o \in E : \E j \in 1..(i - 1) : dates[j] = Key(ledger, o)}
         /\ C = {o \in E : \E j \in 1..i : dates[j] = Key(ledger, o)}
    BY <1>1, <1>5, <1>6 DEF EnteredUpTo
  <1>12. \A j : j \in 1..i <=> j \in 1..(i - 1) \/ j = i
    BY <1>9
  <1>13. C = B \union (R \union P)
    BY <1>3, <1>4, <1>8, <1>11, <1>12
  <1>14. R \intersect P = {} /\ B \intersect (R \union P) = {}
    BY <1>3, <1>4, <1>10, <1>11
  <1>15. B \subseteq E /\ R \subseteq E /\ P \subseteq E
    BY <1>3, <1>4, <1>11
  <1>16. IsFiniteSet(B) /\ IsFiniteSet(R) /\ IsFiniteSet(P) /\ IsFiniteSet(R \union P)
    BY <1>7, <1>15, FS_Subset, FS_Union
  <1>17. \A o \in E : f[o] \in Int /\ a[o] \in Int
    BY <1>2, <1>7, SignedIs, LedgerFacts
  <1>18. SumOf(f, C) = SumOf(f, B) + (SumOf(f, R) + SumOf(f, P))
    <2>1. \A o \in R \union P : f[o] \in Int
      BY <1>15, <1>17
    <2>2. SumOf(f, R \union P) = SumOf(f, R) + SumOf(f, P)
      BY <1>14, <1>16, <2>1, SumUnion
    <2>3. PICK U : U = R \union P
      OBVIOUS
    <2>4. B \intersect U = {} /\ IsFiniteSet(U) /\ \A o \in B \union U : f[o] \in Int
      BY <1>14, <1>15, <1>16, <1>17, <2>3
    <2>5. SumOf(f, B \union U) = SumOf(f, B) + SumOf(f, U)
      BY <1>16, <2>4, SumUnion
    <2>6. QED
      BY <1>13, <2>2, <2>3, <2>5
  <1>19. SumOf(f, B) \in Int /\ SumOf(a, R) \in Int /\ SumOf(a, P) \in Int
    BY <1>15, <1>16, <1>17, SumInt
  <1>20. SumOf(f, R) = SumOf(a, R)
    <2>1. \A o \in R : f[o] = a[o]
      BY <1>2, <1>3, <1>7, SignedIs, LedgerFacts
    <2>2. QED
      BY <1>16, <2>1, SumSame
  <1>21. SumOf(f, P) = 0 - SumOf(a, P)
    <2>1. \A o \in P : a[o] \in Int /\ f[o] = 0 - a[o]
      BY <1>2, <1>4, <1>7, SignedIs, LedgerFacts
    <2>2. QED
      BY <1>16, <2>1, SumNegated
  <1>22. /\ Total(ledger, currency, dates[i], "receivable") = SumOf(a, R)
         /\ Total(ledger, currency, dates[i], "payable") = SumOf(a, P)
    BY <1>1, <1>2, <1>3, <1>4 DEF Total, SumOf
  <1>23. /\ SignedUpTo(ledger, currency, i - 1) = SumOf(f, B)
         /\ SignedUpTo(ledger, currency, i) = SumOf(f, C)
    BY <1>2, <1>5, <1>6 DEF SignedUpTo
  <1>24. PICK b, r, p \in Int : b = SumOf(f, B) /\ r = SumOf(a, R) /\ p = SumOf(a, P)
    BY <1>19
  <1>25. SumOf(f, C) = b + (r + (0 - p))
    BY <1>18, <1>20, <1>21, <1>24
  <1>26. SumOf(f, C) = b + r - p
    BY <1>24, <1>25
  <1>27. QED
    BY <1>22, <1>23, <1>24, <1>26

\* The opening balance is what is held: a sum over the accounts of sums over
\* their transactions.
LEMMA OpeningIsHeld ==
    ASSUME NEW ledger, Ledger(ledger), NEW currency
    PROVE  Opening(ledger, currency) = Held(ledger, currency) /\ Held(ledger, currency) \in Int
  <1>1. PICK A : A = AccountsIn(ledger, currency)
    OBVIOUS
  <1>2. A \in SUBSET DOMAIN ledger.accounts
    BY <1>1 DEF AccountsIn
  <1>3. IsFiniteSet(A)
    BY <1>2, LedgerFacts, FS_Subset
  <1>4. PICK f, D : f = Amounts(ledger.transactions) /\ D = DOMAIN ledger.transactions
    OBVIOUS
  <1>5. IsFiniteSet(D) /\ \A t \in D : f[t] \in Int
    BY <1>4, LedgerFacts
  <1> DEFINE Booked(a) == {t \in D : ledger.transactions[t].account = a /\ ledger.transactions[t].date <= ledger.asOf}
  <1>6. PICK parts : parts = [a \in A |-> Booked(a)]
    OBVIOUS
  <1>7. PICK sums : sums = [a \in A |-> Balance(ledger, a)]
    OBVIOUS
  <1>8. \A a \in A : parts[a] \subseteq D
    BY <1>6
  <1>9. \A a \in A : IsFiniteSet(parts[a]) /\ \A t \in parts[a] : f[t] \in Int
    BY <1>5, <1>8, FS_Subset
  <1>10. \A a, b \in A : a # b => parts[a] \intersect parts[b] = {}
    BY <1>6
  <1>11. \A a \in A : sums[a] = SumOf(f, parts[a])
    BY <1>4, <1>6, <1>7 DEF Balance, SumOf
  <1>12. PICK H : H = UNION {parts[a] : a \in A}
    OBVIOUS
  <1>13. IsFiniteSet(H) /\ SumOf(sums, A) = SumOf(f, H)
    <2> HIDE DEF Booked
    <2>1. QED
      BY <1>3, <1>9, <1>10, <1>11, <1>12, SumOfSums
  <1>14. Opening(ledger, currency) = SumOf(sums, A)
    <2>1. DOMAIN sums = A
      BY <1>7
    <2>2. Opening(ledger, currency) = SumFunctionOnSet(sums, DOMAIN sums)
      BY <1>1, <1>7 DEF Opening, SumFunction, SumFunctionOnSet, FoldFunction
    <2>3. QED
      BY <2>1, <2>2 DEF SumOf
  <1>15. H = {t \in D : ledger.transactions[t].date <= ledger.asOf /\ ledger.transactions[t].account \in A}
    BY <1>6, <1>12
  <1>16. Held(ledger, currency) = SumOf(f, H)
    BY <1>1, <1>4, <1>15 DEF Held, SumOf
  <1>17. SumOf(f, H) \in Int
    BY <1>5, <1>13, <1>15, SumInt
  <1>18. QED
    BY <1>13, <1>14, <1>16, <1>17

\* The balance after i events.
IsProjected(p, ledger, currency) ==
    p = [i \in 0 .. Len(Dates(ledger, currency)) |->
            IF i = 0 THEN Opening(ledger, currency)
            ELSE p[i - 1] + Total(ledger, currency, Dates(ledger, currency)[i], "receivable")
                          - Total(ledger, currency, Dates(ledger, currency)[i], "payable")]

LEMMA ProjectedChosen ==
    ASSUME NEW ledger, NEW currency
    PROVE  Projected(ledger, currency) = CHOOSE p : IsProjected(p, ledger, currency)
  BY DEF Projected, IsProjected

LEMMA ProjectedIs ==
    ASSUME NEW ledger, Ledger(ledger), NEW currency, NEW n \in Nat, n = Len(Dates(ledger, currency))
    PROVE  \A i \in 0..n :
               Projected(ledger, currency)[i] = Held(ledger, currency) + SignedUpTo(ledger, currency, i)
  <1>1. PICK held \in Int : held = Held(ledger, currency) /\ held = Opening(ledger, currency)
    BY OpeningIsHeld
  <1>2. PICK dates : dates = Dates(ledger, currency)
    OBVIOUS
  <1>3. PICK sum : sum = [i \in 0..n |-> SignedUpTo(ledger, currency, i)]
    OBVIOUS
  <1>4. PICK in : in = [i \in 1..n |-> Total(ledger, currency, dates[i], "receivable")]
    OBVIOUS
  <1>5. PICK out : out = [i \in 1..n |-> Total(ledger, currency, dates[i], "payable")]
    OBVIOUS
  <1>6. \A i \in 1..n : /\ i - 1 \in 0..n
                        /\ sum[i - 1] \in Int /\ in[i] \in Int /\ out[i] \in Int
                        /\ sum[i] = sum[i - 1] + in[i] - out[i]
    <2>1. SUFFICES ASSUME NEW i \in 1..n
                   PROVE  /\ i - 1 \in 0..n
                          /\ sum[i - 1] \in Int /\ in[i] \in Int /\ out[i] \in Int
                          /\ sum[i] = sum[i - 1] + in[i] - out[i]
      OBVIOUS
    <2>2. i \in 0..n /\ i - 1 \in 0..n /\ i \in 1..Len(dates)
      BY <1>2
    <2>3. /\ sum[i] = SignedUpTo(ledger, currency, i)
          /\ sum[i - 1] = SignedUpTo(ledger, currency, i - 1)
          /\ in[i] = Total(ledger, currency, dates[i], "receivable")
          /\ out[i] = Total(ledger, currency, dates[i], "payable")
      BY <1>3, <1>4, <1>5, <2>2
    <2>4. QED
      BY <1>2, <2>2, <2>3, NextEvent, SMTT(30)
  <1>7. sum[0] = 0
    <2>1. EnteredUpTo(ledger, currency, 0) = {}
      BY DEF EnteredUpTo
    <2>2. SignedUpTo(ledger, currency, 0) = 0
      BY <2>1, SumEmpty DEF SignedUpTo
    <2>3. QED
      BY <1>3, <2>2
  <1> DEFINE IsIt(p) == p = [i \in 0..n |-> IF i = 0 THEN held ELSE p[i - 1] + in[i] - out[i]]
  <1>8. \A p : IsProjected(p, ledger, currency) <=> IsIt(p)
    <2>1. SUFFICES ASSUME NEW p PROVE IsProjected(p, ledger, currency) <=> IsIt(p)
      OBVIOUS
    <2>2. \A i \in 0..n : i # 0 =>
              /\ in[i] = Total(ledger, currency, dates[i], "receivable")
              /\ out[i] = Total(ledger, currency, dates[i], "payable")
      BY <1>4, <1>5
    <2>3. QED
      BY <1>1, <1>2, <2>2 DEF IsProjected
  <1>9. \E p : IsIt(p)
    <2> DEFINE p == [i \in 0..n |-> held + sum[i]]
    <2>1. p = [i \in 0..n |-> IF i = 0 THEN held ELSE p[i - 1] + in[i] - out[i]]
      <3>1. ASSUME NEW i \in 0..n
            PROVE  held + sum[i] = IF i = 0 THEN held ELSE p[i - 1] + in[i] - out[i]
        <4>1. CASE i = 0
          BY <1>7, <4>1
        <4>2. CASE i # 0
          <5>1. i \in 1..n /\ i - 1 \in 0..n
            BY <4>2
          <5>2. PICK s, a, b \in Int : s = sum[i - 1] /\ a = in[i] /\ b = out[i] /\ sum[i] = s + a - b
            BY <1>6, <5>1
          <5>3. p[i - 1] = held + s
            BY <5>1, <5>2
          <5>4. held + (s + a - b) = held + s + a - b
            OBVIOUS
          <5> HIDE DEF p
          <5>5. QED
            BY <4>2, <5>2, <5>3, <5>4
        <4>3. QED
          BY <4>1, <4>2
      <3>2. QED
        BY <3>1
    <2>2. QED
      BY <2>1
  <1>10. PICK p : p = Projected(ledger, currency) /\ IsIt(p)
    <2> HIDE DEF IsIt
    <2>1. IsProjected(CHOOSE q : IsProjected(q, ledger, currency), ledger, currency)
      BY <1>8, <1>9
    <2>2. QED
      BY <1>8, <2>1, ProjectedChosen
  <1> DEFINE G == {i \in 0..n : p[i] = held + sum[i]}
  <1>11. 0 \in G
    BY <1>7, <1>10
  <1>12. ASSUME NEW i \in 1..n, i - 1 \in G PROVE i \in G
    <2>1. PICK s, a, b \in Int : s = sum[i - 1] /\ a = in[i] /\ b = out[i] /\ sum[i] = s + a - b
      BY <1>6
    <2>2. p[i] = p[i - 1] + in[i] - out[i]
      <3>1. i \in 0..n /\ i # 0
        OBVIOUS
      <3>2. QED
        BY <1>10, <3>1
    <2>3. p[i - 1] = held + s
      BY <1>12, <2>1
    <2>4. p[i] = held + s + a - b
      BY SMTT(30), <2>1, <2>2, <2>3
    <2>5. p[i] = held + sum[i]
      BY <2>1, <2>4
    <2>6. QED
      BY <2>5
  <1>13. \A i \in 0..n : i \in G
    <2> HIDE DEF G
    <2>1. QED
      BY <1>11, <1>12, UpTo
  <1>14. \A i \in 0..n : p[i] = held + sum[i]
    BY <1>13
  <1>15. QED
    BY <1>1, <1>3, <1>10, <1>14

\* Two ways to say what is due by a day agree when they differ by obligations
\* that add nothing.
LEMMA DueByDay ==
    ASSUME NEW ledger, Ledger(ledger), NEW currency, NEW day \in Int,
           NEW E, E \subseteq Entered(ledger, currency),
           \A o \in E : ledger.obligations[o].due <= day,
           \A o \in Entered(ledger, currency) : ledger.obligations[o].due <= day => o \in E,
           \A o \in OpenBy(ledger, currency, day) : Key(ledger, o)[1] <= ledger.through
    PROVE  SumOf(Signed(ledger), E) = SumOf(Signed(ledger), OpenBy(ledger, currency, day))
  <1>1. PICK D, f : D = OpenBy(ledger, currency, day) /\ f = Signed(ledger)
    OBVIOUS
  <1>2. D \subseteq DOMAIN ledger.obligations
    BY <1>1 DEF OpenBy
  <1>3. IsFiniteSet(D)
    BY <1>2, LedgerFacts, FS_Subset
  <1>4. E \subseteq D
    BY <1>1, EnteredIs DEF OpenBy
  <1>5. ASSUME NEW o \in D, o \notin E PROVE f[o] = 0
    <2>1. SUFFICES ASSUME f[o] # 0 PROVE FALSE
      OBVIOUS
    <2>2. ledger.obligations[o].type \in {"payable", "receivable"} /\ ledger.obligations[o].amount > 0
      BY <1>1, <1>2, <2>1, SignedIs
    <2>3. /\ ledger.obligations[o].currency = currency
          /\ ledger.obligations[o].status \notin {"paid", "cancelled"}
          /\ ledger.obligations[o].due <= day
      BY <1>1 DEF OpenBy
    <2>4. Key(ledger, o)[1] <= ledger.through
      BY <1>1
    <2>5. o \in Entered(ledger, currency)
      BY <1>2, <2>2, <2>3, <2>4, EnteredIs
    <2>6. QED
      BY <1>5, <2>3, <2>5
  <1>6. \A o \in D : f[o] \in Int
    BY <1>1, <1>2, SignedIs
  <1>7. SumOf(f, D) = SumOf(f, E)
    BY <1>3, <1>4, <1>5, <1>6, SumWithoutZeros
  <1>8. QED
    BY <1>1, <1>7

\* The events up to one are all that is due by the event's own day.
LEMMA EventsAreDue ==
    ASSUME NEW ledger, Ledger(ledger), NEW currency, NEW dates, dates = Dates(ledger, currency),
           NEW i \in 1..Len(dates),
           NEW day, day = IF dates[i][2] = 0 THEN ledger.asOf - 1 ELSE dates[i][1]
    PROVE  SignedUpTo(ledger, currency, i) = SumOf(Signed(ledger), OpenBy(ledger, currency, day))
  <1>1. PICK E : E = EnteredUpTo(ledger, currency, i)
    OBVIOUS
  <1>2. PICK n \in Nat :
            /\ Len(dates) = n /\ DOMAIN dates = 1..n
            /\ \A k \in 1..n : dates[k] \in KeysOf(ledger, currency)
            /\ \A k, j \in 1..n : k < j => Before(dates[k], dates[j])
            /\ \A k, j \in 1..n : Before(dates[k], dates[j]) => k < j
            /\ \A key \in KeysOf(ledger, currency) : \E k \in 1..n : dates[k] = key
    BY DatesAre
  <1>3. PICK key : key = dates[i]
    OBVIOUS
  <1>4. PICK owner \in Entered(ledger, currency) : key = Key(ledger, owner)
    BY <1>2, <1>3 DEF KeysOf
  <1>5. ledger.asOf \in Int /\ ledger.through \in Int /\ ledger.asOf <= ledger.through
    BY LedgerFacts
  <1>6. /\ owner \in DOMAIN ledger.obligations
        /\ key[1] <= ledger.through
    BY <1>4, EnteredIs
  <1>7. PICK at, rank : key = <<at, rank>> /\ at \in Int /\ rank \in {0, 1}
    BY <1>4, <1>6, KeyIs
  <1>8. (rank = 0 => at = ledger.asOf) /\ (rank = 1 => at >= ledger.asOf)
    <2>1. PICK due \in Int : due = ledger.obligations[owner].due
      BY <1>6, LedgerFacts
    <2>2. \/ due < ledger.asOf /\ key = <<ledger.asOf, 0>>
          \/ due >= ledger.asOf /\ key = <<due, 1>>
      BY <1>4, <1>5, <1>6, <2>1, KeyIs
    <2>3. QED
      BY <1>7, <2>2
  <1>9. day \in Int /\ day = IF rank = 0 THEN ledger.asOf - 1 ELSE at
    BY <1>3, <1>5, <1>7
  <1>10. at <= ledger.through
    BY <1>6, <1>7
  \* An obligation is due by the day exactly when its key is not after the event's.
  <1>11. ASSUME NEW o \in DOMAIN ledger.obligations
         PROVE  /\ ledger.obligations[o].due <= day <=> Before(Key(ledger, o), key) \/ Key(ledger, o) = key
                /\ ledger.obligations[o].due <= day => Key(ledger, o)[1] <= at
    <2>1. PICK due \in Int : due = ledger.obligations[o].due
      BY LedgerFacts
    <2>2. CASE due < ledger.asOf
      <3>1. Key(ledger, o) = <<ledger.asOf, 0>>
        BY <2>1, <2>2, KeyIs
      <3>2. Before(Key(ledger, o), key) <=> ledger.asOf < at \/ (ledger.asOf = at /\ 0 < rank)
        BY <1>7, <3>1 DEF Before
      <3>3. due <= day
        BY <1>5, <1>7, <1>8, <1>9, <2>2
      <3>4. Before(Key(ledger, o), key) \/ Key(ledger, o) = key
        BY <1>5, <1>7, <1>8, <3>1, <3>2
      <3>5. Key(ledger, o)[1] <= at
        BY <1>5, <1>7, <1>8, <3>1
      <3>6. QED
        BY <2>1, <3>3, <3>4, <3>5
    <2>3. CASE due >= ledger.asOf
      <3>1. Key(ledger, o) = <<due, 1>>
        BY <2>1, <2>3, KeyIs
      <3>2. Before(Key(ledger, o), key) <=> due < at \/ (due = at /\ 1 < rank)
        BY <1>7, <3>1 DEF Before
      <3>3. Key(ledger, o) = key <=> due = at /\ rank = 1
        BY <1>7, <3>1
      <3>4. CASE rank = 0
        <4>1. ~(due <= day) /\ ~(due < at)
          BY <1>5, <1>8, <1>9, <2>3, <3>4
        <4>2. QED
          BY <2>1, <3>2, <3>3, <3>4, <4>1
      <3>5. CASE rank = 1
        <4>1. due <= day <=> due < at \/ due = at
          BY <1>7, <1>9, <3>5
        <4>2. due <= day => Key(ledger, o)[1] <= at
          BY <1>7, <3>1, <4>1
        <4>3. QED
          BY <2>1, <3>2, <3>3, <3>5, <4>1, <4>2
      <3>6. QED
        BY <1>7, <3>4, <3>5
    <2>4. QED
      BY <1>5, <2>1, <2>2, <2>3
  <1>12. Entered(ledger, currency) \subseteq DOMAIN ledger.obligations
    BY KeysFinite
  <1>13. E \subseteq Entered(ledger, currency)
    BY <1>1 DEF EnteredUpTo
  <1>14. ASSUME NEW o \in E PROVE ledger.obligations[o].due <= day
    <2>1. PICK j \in 1..i : dates[j] = Key(ledger, o)
      BY <1>1 DEF EnteredUpTo
    <2>2. j \in 1..n /\ i \in 1..n /\ (j < i \/ j = i)
      BY <1>2
    <2>3. Before(dates[j], dates[i]) \/ dates[j] = dates[i]
      BY <1>2, <2>2
    <2>4. o \in DOMAIN ledger.obligations
      BY <1>12, <1>13
    <2>5. QED
      BY <1>3, <1>11, <2>1, <2>3, <2>4
  <1>15. ASSUME NEW o \in Entered(ledger, currency), ledger.obligations[o].due <= day PROVE o \in E
    <2>1. Before(Key(ledger, o), key) \/ Key(ledger, o) = key
      BY <1>11, <1>12, <1>15
    <2>2. Key(ledger, o) \in KeysOf(ledger, currency)
      BY DEF KeysOf
    <2>3. PICK k \in 1..n : dates[k] = Key(ledger, o)
      BY <1>2, <2>2
    <2>4. CASE Key(ledger, o) = key
      <3>1. i \in 1..i
        BY <1>2
      <3>2. QED
        BY <1>1, <1>3, <2>4, <3>1 DEF EnteredUpTo
    <2>5. CASE Before(Key(ledger, o), key)
      <3>1. k < i
        BY <1>2, <1>3, <2>3, <2>5
      <3>2. k \in 1..i
        BY <1>2, <3>1
      <3>3. QED
        BY <1>1, <2>3, <3>2 DEF EnteredUpTo
    <2>6. QED
      BY <2>1, <2>4, <2>5
  <1>16. \A o \in OpenBy(ledger, currency, day) : Key(ledger, o)[1] <= ledger.through
    <2>1. SUFFICES ASSUME NEW o \in OpenBy(ledger, currency, day) PROVE Key(ledger, o)[1] <= ledger.through
      OBVIOUS
    <2>2. o \in DOMAIN ledger.obligations /\ ledger.obligations[o].due <= day
      BY DEF OpenBy
    <2>3. PICK d \in Int : d = Key(ledger, o)[1]
      BY <2>2, KeyIs
    <2>4. d <= at
      BY <1>11, <2>2, <2>3
    <2>5. QED
      BY <1>5, <1>7, <1>10, <2>3, <2>4
  <1>17. SumOf(Signed(ledger), E) = SumOf(Signed(ledger), OpenBy(ledger, currency, day))
    BY <1>9, <1>13, <1>14, <1>15, <1>16, DueByDay
  <1>18. QED
    BY <1>1, <1>17 DEF SignedUpTo

\* All the events are all that is due in the period.
LEMMA AllIsDue ==
    ASSUME NEW ledger, Ledger(ledger), NEW currency
    PROVE  SignedUpTo(ledger, currency, Len(Dates(ledger, currency))) =
               SumOf(Signed(ledger), OpenBy(ledger, currency, ledger.through))
  <1>1. PICK n \in Nat :
            /\ Len(Dates(ledger, currency)) = n
            /\ \A key \in KeysOf(ledger, currency) : \E k \in 1..n : Dates(ledger, currency)[k] = key
    BY DatesAre
  <1>2. EnteredUpTo(ledger, currency, n) = Entered(ledger, currency)
    BY <1>1 DEF EnteredUpTo, KeysOf
  <1>3. PICK through \in Int : through = ledger.through /\ ledger.asOf \in Int /\ ledger.asOf <= through
    BY LedgerFacts
  <1>4. \A o \in DOMAIN ledger.obligations :
            ledger.obligations[o].due <= through <=> Key(ledger, o)[1] <= through
    <2>1. SUFFICES ASSUME NEW o \in DOMAIN ledger.obligations
                   PROVE  ledger.obligations[o].due <= through <=> Key(ledger, o)[1] <= through
      OBVIOUS
    <2>2. PICK due \in Int : due = ledger.obligations[o].due
      BY LedgerFacts
    <2>3. \/ due < ledger.asOf /\ Key(ledger, o) = <<ledger.asOf, 0>>
          \/ due >= ledger.asOf /\ Key(ledger, o) = <<due, 1>>
      BY <1>3, <2>2, KeyIs
    <2>4. QED
      BY <1>3, <2>2, <2>3
  <1>5. \A o \in Entered(ledger, currency) : ledger.obligations[o].due <= through
    BY <1>3, <1>4, EnteredIs
  <1>6. \A o \in OpenBy(ledger, currency, through) : Key(ledger, o)[1] <= ledger.through
    BY <1>3, <1>4 DEF OpenBy
  <1>7. PICK E : E = Entered(ledger, currency)
    OBVIOUS
  <1>8. SumOf(Signed(ledger), E) = SumOf(Signed(ledger), OpenBy(ledger, currency, through))
    BY <1>5, <1>6, <1>7, DueByDay
  <1>9. QED
    BY <1>1, <1>2, <1>3, <1>7, <1>8 DEF SignedUpTo

\* buildCashflow's balances, for every ledger: after each event there is what
\* is held and all that is open and due by the event's day, what is overdue
\* alone before the rest, and at the end all that is due in the period.
THEOREM ForecastsAddUp ==
    ASSUME NEW ledger, Ledger(ledger)
    PROVE  AddsUp(ledger)
  <1>1. SUFFICES ASSUME NEW currency \in Currencies(ledger)
        PROVE  LET forecast == ForecastOf(ledger, currency)
                   last == IF forecast = <<>> THEN Opening(ledger, currency)
                           ELSE forecast[Len(forecast)].projected
               IN /\ \A i \in DOMAIN forecast :
                         forecast[i].projected =
                             Expected(ledger, currency,
                                      IF forecast[i].overdue THEN ledger.asOf - 1 ELSE forecast[i].date)
                  /\ last = Expected(ledger, currency, ledger.through)
    BY DEF AddsUp
  <1>2. PICK dates, forecast : dates = Dates(ledger, currency) /\ forecast = ForecastOf(ledger, currency)
    OBVIOUS
  <1>3. PICK n \in Nat : n = Len(dates) /\ DOMAIN dates = 1..n
    BY <1>2, DatesAre
  <1>4. PICK p : p = Projected(ledger, currency)
    OBVIOUS
  <1>5. \A i \in 0..n : p[i] = Held(ledger, currency) + SignedUpTo(ledger, currency, i)
    BY <1>2, <1>3, <1>4, ProjectedIs
  <1>6. /\ DOMAIN forecast = 1..n
        /\ \A i \in 1..n : /\ forecast[i].projected = p[i]
                           /\ forecast[i].overdue = (dates[i][2] = 0)
                           /\ forecast[i].date = dates[i][1]
    BY <1>2, <1>3, <1>4 DEF ForecastOf
  <1>7. ASSUME NEW i \in 1..n, NEW day, day = IF forecast[i].overdue THEN ledger.asOf - 1 ELSE forecast[i].date
        PROVE  forecast[i].projected = Expected(ledger, currency, day)
    <2>1. i \in 0..n /\ i \in 1..Len(dates)
      BY <1>3
    <2>2. day = IF dates[i][2] = 0 THEN ledger.asOf - 1 ELSE dates[i][1]
      BY <1>6, <1>7
    <2>3. SignedUpTo(ledger, currency, i) = SumOf(Signed(ledger), OpenBy(ledger, currency, day))
      BY <1>2, <2>1, <2>2, EventsAreDue
    <2>4. forecast[i].projected = Held(ledger, currency) + SignedUpTo(ledger, currency, i)
      BY <1>5, <1>6, <2>1
    <2>5. QED
      BY <2>3, <2>4 DEF Expected, SumOf
  <1>8. p[n] = Expected(ledger, currency, ledger.through)
    <2>1. SignedUpTo(ledger, currency, n) = SumOf(Signed(ledger), OpenBy(ledger, currency, ledger.through))
      BY <1>2, <1>3, AllIsDue
    <2>2. p[n] = Held(ledger, currency) + SignedUpTo(ledger, currency, n)
      BY <1>3, <1>5
    <2>3. QED
      BY <2>1, <2>2 DEF Expected, SumOf
  <1>9. CASE n = 0
    <2>1. p[0] = Opening(ledger, currency)
      <3>1. PICK held \in Int : held = Held(ledger, currency) /\ held = Opening(ledger, currency)
        BY OpeningIsHeld
      <3>2. SignedUpTo(ledger, currency, 0) = 0
        <4>1. EnteredUpTo(ledger, currency, 0) = {}
          BY DEF EnteredUpTo
        <4>2. QED
          BY <4>1, SumEmpty DEF SignedUpTo
      <3>3. p[0] = held + SignedUpTo(ledger, currency, 0)
        BY <1>3, <1>5, <3>1
      <3>4. QED
        BY <3>1, <3>2, <3>3
    <2>2. forecast = <<>>
      <3>1. DOMAIN forecast = {}
        BY <1>6, <1>9
      <3>2. forecast = [i \in {} |-> dates[i]]
        BY <1>2, <1>3, <3>1 DEF ForecastOf
      <3>3. QED
        BY <3>2
    <2>3. QED
      BY <1>2, <1>6, <1>8, <1>9, <2>1, <2>2
  <1>10. CASE n # 0
    <2>1. n \in 1..n /\ forecast[n].projected = p[n]
      BY <1>6, <1>10
    <2>2. forecast # <<>>
      BY <1>6, <2>1
    <2>3. Len(forecast) = n
      <3>1. forecast \in Seq({forecast[i] : i \in 1..n})
        BY <1>2, <1>3, <1>6 DEF ForecastOf
      <3>2. QED
        BY <1>6, <3>1
    <2>4. \A i \in DOMAIN forecast :
              forecast[i].projected =
                  Expected(ledger, currency, IF forecast[i].overdue THEN ledger.asOf - 1 ELSE forecast[i].date)
      BY <1>6, <1>7
    <2>5. QED
      BY <1>2, <1>8, <2>1, <2>2, <2>3, <2>4
  <1>11. QED
    BY <1>9, <1>10
=============================================================================
